---- MODULE Spec2Model ----
(***************************************************************************)
(* Model of the PIX (EMV / BR Code) payload builder of adegav2.py:         *)
(* _emv_kv, _crc16_ccitt and build_pix_payload, with the part of Python's  *)
(* decimal arithmetic that build_pix_payload relies on.                    *)
(*                                                                         *)
(* A Python str is a sequence of code points, a bytes object a sequence of *)
(* numbers 0..255.  The result of a call is a record [exc, val]: exc = ""  *)
(* when the call returned val, otherwise the name of the exception raised. *)
(***************************************************************************)
EXTENDS Integers, Sequences, FiniteSets, TLC

VARIABLES pc, op, key, merchant_name, merchant_city, amount, txid,
          _id, value, data, ret,
          args, products, sales, sale_items,
          pos, settings, printer, history

vars == <<pc, op, key, merchant_name, merchant_city, amount, txid,
          _id, value, data, ret, args, products, sales, sale_items,
          pos, settings, printer, history>>

----------------------------------------------------------------------------
(* Bounds of the checked inputs *)

\* how many characters beyond a truncation limit the longest name, city and txid have
Over == 1
\* length of the longest beneficiary key
KeyLong == 78
\* length of the longest byte string handed to _crc16_ccitt directly
MaxCrcLen == 3

----------------------------------------------------------------------------
(* Python primitives *)

Min(a, b) == IF a < b THEN a ELSE b

\* s[:n]
Prefix(s, n) == SubSeq(s, 1, Min(Len(s), n))

\* a ^ b on non-negative integers
RECURSIVE Xor(_, _)
Xor(a, b) ==
  IF a = 0 THEN b
  ELSE IF b = 0 THEN a
  ELSE (((a % 2) + (b % 2)) % 2) + 2 * Xor(a \div 2, b \div 2)

\* a & m for a >= 0 and a mask m = 2^k: the bit k of a, in place
AndBit(a, m) == ((a \div m) % 2) * m

\* a & m for a >= 0 and a mask m = 2^k - 1: the low k bits of a
AndLow(a, m) == a % (m + 1)

\* the decimal digits of n >= 0 as characters
RECURSIVE DecDigits(_)
DecDigits(n) == IF n < 10 THEN <<48 + n>> ELSE Append(DecDigits(n \div 10), 48 + (n % 10))

\* '0' * n
Zeros(n) == [i \in 1..n |-> 48]

\* f"{n:02d}": at least 2 digits, zero-padded, more when n needs them
Fmt02d(n) == LET d == DecDigits(n) IN Zeros(2 - Len(d)) \o d

HexChar(h) == IF h < 10 THEN 48 + h ELSE 55 + h

\* the uppercase hexadecimal digits of n >= 0 as characters
RECURSIVE HexDigits(_)
HexDigits(n) == IF n < 16 THEN <<HexChar(n)>> ELSE Append(HexDigits(n \div 16), HexChar(n % 16))

\* f"{n:04X}"
Fmt04X(n) == LET d == HexDigits(n) IN Zeros(4 - Len(d)) \o d

\* the UTF-8 bytes of one code point (not a surrogate)
Utf8Char(c) ==
  IF c < 128 THEN <<c>>
  ELSE IF c < 2048 THEN <<192 + (c \div 64), 128 + (c % 64)>>
  ELSE IF c < 65536 THEN <<224 + (c \div 4096), 128 + ((c \div 64) % 64), 128 + (c % 64)>>
  ELSE <<240 + (c \div 262144), 128 + ((c \div 4096) % 64),
         128 + ((c \div 64) % 64), 128 + (c % 64)>>

IsSurrogate(c) == c >= 55296 /\ c <= 57343

\* the UTF-8 bytes of the characters s[lo..hi], in order
RECURSIVE Utf8Range(_, _, _)
Utf8Range(s, lo, hi) ==
  IF lo > hi THEN <<>>
  ELSE IF lo = hi THEN Utf8Char(s[lo])
  ELSE LET mid == (lo + hi) \div 2
       IN  Utf8Range(s, lo, mid) \o Utf8Range(s, mid + 1, hi)

Utf8Bytes(s) == Utf8Range(s, 1, Len(s))

\* s.encode("utf-8"): raises UnicodeEncodeError on a lone surrogate
Utf8Encode(s) ==
  IF \E i \in 1..Len(s) : IsSurrogate(s[i])
  THEN [exc |-> "UnicodeEncodeError", val |-> <<>>]
  ELSE [exc |-> "", val |-> Utf8Bytes(s)]

\* c.isdigit() of an ASCII character
IsDigit(c) == c >= 48 /\ c <= 57

\* c.isspace(): the characters str.strip() removes
IsSpace(c) ==
  c \in (9..13) \cup (28..32) \cup {133, 160, 5760} \cup (8192..8202)
        \cup {8232, 8233, 8239, 8287, 12288}

\* s.strip()
Strip(s) ==
  LET kept == {i \in 1..Len(s) : ~IsSpace(s[i])}
  IN  IF kept = {} THEN <<>>
      ELSE SubSeq(s, CHOOSE i \in kept : \A j \in kept : i <= j,
                     CHOOSE i \in kept : \A j \in kept : i >= j)

\* s.replace(old, new) for a one-character old
RECURSIVE Replace(_, _, _)
Replace(s, old, new) ==
  IF s = <<>> THEN <<>>
  ELSE (IF Head(s) = old THEN new ELSE <<Head(s)>>) \o Replace(Tail(s), old, new)

\* c.lower() of an ASCII character
Lower(c) == IF c >= 65 /\ c <= 90 THEN c + 32 ELSE c

\* int(ds) of a sequence of digits
RECURSIVE IntOf(_)
IntOf(ds) == IF ds = <<>> THEN 0 ELSE 10 * IntOf(SubSeq(ds, 1, Len(ds) - 1)) + ds[Len(ds)]

\* the digits of str(n), n >= 0
RECURSIVE DigitsOf(_)
DigitsOf(n) == IF n < 10 THEN <<n>> ELSE Append(DigitsOf(n \div 10), n % 10)

\* 10 ** n
RECURSIVE Pow10(_)
Pow10(n) == IF n = 0 THEN 1 ELSE 10 * Pow10(n - 1)

----------------------------------------------------------------------------
(* Python's decimal.Decimal, as far as the program uses it.                *)
(* A value is [kind, sign, int, exp]: kind "F" is the finite number        *)
(* (-1)^sign * int * 10^exp with int a sequence of digits 0..9 without     *)
(* leading zeros; "Inf", "NaN" and "sNaN" are the special values; "None"   *)
(* is the absent argument and "str" a Python string s of code points.      *)

None == [kind |-> "None", sign |-> 0, int |-> <<>>, exp |-> 0]
Dec(sign, int, exp) == [kind |-> "F", sign |-> sign, int |-> int, exp |-> exp]
NaN == [kind |-> "NaN", sign |-> 0, int |-> <<>>, exp |-> 0]
Inf(sign) == [kind |-> "Inf", sign |-> sign, int |-> <<>>, exp |-> 0]

\* the precision of the default context, decimal.getcontext().prec
PREC == 28
\* the exponent of MONEY_Q = Decimal("0.01")
MONEY_Q == -2

\* bool(d): None and a finite zero are falsy
Truthy(d) == d.kind # "None" /\ (d.kind # "F" \/ d.int # <<0>>)

\* d > 0 for a truthy d that is not NaN
Positive(d) == d.sign = 0

\* _all_zeros(int, prec): the digits after the first prec are all 0
AllZeros(int, prec) == \A i \in (prec + 1)..Len(int) : int[i] = 0
\* _exact_half(int, prec): the digits after the first prec are 5 0 0 ...
ExactHalf(int, prec) == int[prec + 1] = 5 /\ AllZeros(int, prec + 1)

\* Decimal._round_half_up: 1 round away from zero, 0 exact, -1 truncate
RoundHalfUp(int, prec) ==
  IF int[prec + 1] >= 5 THEN 1
  ELSE IF AllZeros(int, prec) THEN 0
  ELSE -1

\* Decimal._round_half_even, the rounding of the default context
RoundHalfEven(int, prec) ==
  IF ExactHalf(int, prec) /\ (prec = 0 \/ int[prec] % 2 = 0) THEN -1
  ELSE RoundHalfUp(int, prec)

\* str(int(coeff) + 1) on a digit sequence
RECURSIVE Incr(_)
Incr(ds) ==
  IF ds = <<>> THEN <<1>>
  ELSE IF ds[Len(ds)] < 9 THEN [ds EXCEPT ![Len(ds)] = @ + 1]
  ELSE Append(Incr(SubSeq(ds, 1, Len(ds) - 1)), 0)

\* the rounding functions of Decimal._pick_rounding_function
Round(rounding, int, prec) ==
  IF rounding = "ROUND_HALF_UP" THEN RoundHalfUp(int, prec) ELSE RoundHalfEven(int, prec)

\* the rounding of the default context
CONTEXT_ROUNDING == "ROUND_HALF_EVEN"

\* Decimal._rescale(exp, rounding) of a finite d
Rescale(d, exp, rounding) ==
  IF d.int = <<0>> THEN Dec(d.sign, <<0>>, exp)
  ELSE IF d.exp >= exp THEN Dec(d.sign, d.int \o [i \in 1..(d.exp - exp) |-> 0], exp)
  ELSE LET digits0 == Len(d.int) + d.exp - exp
           int     == IF digits0 < 0 THEN <<1>> ELSE d.int
           digits  == IF digits0 < 0 THEN 0 ELSE digits0
           changed == Round(rounding, int, digits)
           kept    == IF digits = 0 THEN <<0>> ELSE SubSeq(int, 1, digits)
           coeff   == IF changed = 1 THEN Incr(kept) ELSE kept
       IN  Dec(d.sign, coeff, exp)

\* d.quantize(Decimal with exponent exp, rounding) in the default context
Quantize(d, exp, rounding) ==
  IF d.kind = "NaN" THEN [exc |-> "", val |-> d]
  ELSE IF d.kind = "Inf" THEN [exc |-> "InvalidOperation", val |-> d]
  ELSE IF d.int = <<0>> THEN [exc |-> "", val |-> Dec(d.sign, <<0>>, exp)]
  ELSE IF (d.exp + Len(d.int) - 1) - exp + 1 > PREC
       THEN [exc |-> "InvalidOperation", val |-> d]
  ELSE LET ans == Rescale(d, exp, rounding)
       IN  IF Len(ans.int) > PREC THEN [exc |-> "InvalidOperation", val |-> d]
           ELSE [exc |-> "", val |-> ans]

DigitChars(int) == [i \in 1..Len(int) |-> 48 + int[i]]

\* "%+d" % n
FmtSigned(n) == IF n < 0 THEN <<45>> \o DecDigits(-n) ELSE <<43>> \o DecDigits(n)

\* str(d) = f"{d}" of a finite d
DecStr(d) ==
  LET n          == Len(d.int)
      leftdigits == d.exp + n
      plain      == d.exp <= 0 /\ leftdigits > -6
      dotplace   == IF plain THEN leftdigits ELSE 1
      intpart    == IF dotplace <= 0 THEN <<48>>
                    ELSE IF dotplace >= n THEN DigitChars(d.int) \o Zeros(dotplace - n)
                    ELSE DigitChars(SubSeq(d.int, 1, dotplace))
      fracpart   == IF dotplace <= 0 THEN <<46>> \o Zeros(-dotplace) \o DigitChars(d.int)
                    ELSE IF dotplace >= n THEN <<>>
                    ELSE <<46>> \o DigitChars(SubSeq(d.int, dotplace + 1, n))
      exppart    == IF leftdigits = dotplace THEN <<>>
                    ELSE <<69>> \o FmtSigned(leftdigits - dotplace)
  IN  (IF d.sign = 1 THEN <<45>> ELSE <<>>) \o intpart \o fracpart \o exppart

\* a str value
PyStr(s) == [kind |-> "str", s |-> s]

Returns(v) == [exc |-> "", val |-> v]
Raises(e) == [exc |-> e, val |-> None]

\* Decimal(n) of an int n
DecInt(n) == IF n < 0 THEN Dec(1, DigitsOf(-n), 0) ELSE Dec(0, DigitsOf(n), 0)

\* the integer (-1)^sign * int of a finite d
Signed(d) == IF d.sign = 1 THEN -IntOf(d.int) ELSE IntOf(d.int)

\* a + b of finite a and b whose sum stays within the context precision
DecAdd(a, b) ==
  LET exp  == Min(a.exp, b.exp)
      sum  == Signed(a) * Pow10(a.exp - exp) + Signed(b) * Pow10(b.exp - exp)
      sign == IF sum < 0 THEN 1
              ELSE IF sum > 0 THEN 0
              ELSE IF a.sign = 1 /\ b.sign = 1 THEN 1 ELSE 0
  IN  Dec(sign, DigitsOf(IF sum < 0 THEN -sum ELSE sum), exp)

\* a - b is a + b.copy_negate()
DecSub(a, b) == DecAdd(a, [b EXCEPT !.sign = 1 - @])

\* a * b of finite a and b whose product stays within the context precision
DecMul(a, b) ==
  Dec((a.sign + b.sign) % 2, DigitsOf(IntOf(a.int) * IntOf(b.int)), a.exp + b.exp)

\* a / Decimal('100') of a finite a: the quotient is exact, and of its
\* trailing zeros those are dropped that bring the exponent back up to a's
DecDiv100(a) ==
  LET n == Len(a.int)
      z == IF a.int[n] # 0 THEN 0
           ELSE IF n >= 2 /\ a.int[n - 1] = 0 THEN 2 ELSE 1
  IN  IF a.int = <<0>> THEN Dec(a.sign, <<0>>, a.exp)
      ELSE Dec(a.sign, SubSeq(a.int, 1, n - z), a.exp - 2 + z)

\* the first position of s holding a character of C, 0 if there is none
FirstOf(s, C) ==
  LET at == {i \in 1..Len(s) : s[i] \in C}
  IN  IF at = {} THEN 0 ELSE CHOOSE i \in at : \A j \in at : i <= j

AllDigits(s) == \A i \in 1..Len(s) : IsDigit(s[i])

\* str(int(ds)) as digits: ds without its leading zeros
RECURSIVE StripZeros(_)
StripZeros(ds) ==
  IF Len(ds) > 1 /\ ds[1] = 0 THEN StripZeros(Tail(ds)) ELSE ds

DigitValues(s) == [i \in 1..Len(s) |-> s[i] - 48]

INF_SPELLINGS == {<<105, 110, 102>>, <<105, 110, 102, 105, 110, 105, 116, 121>>}  \* "inf", "infinity"
NAN_SPELLING == <<110, 97, 110>>                                                  \* "nan"
SNAN_SPELLING == <<115, 110, 97, 110>>                                            \* "snan"

\* Decimal(s) of a str s: surrounding whitespace and every underscore are
\* dropped, then [sign] digits [. digits] [E [sign] digits], Inf, Infinity,
\* NaN or sNaN (with diagnostic digits), in either case of the letters.
\* The stages hand on what they have read: the sign, the text after it
\* (body, low in lower case), mantissa and exponent, integer and fraction.

\* [sign] digits of an exponent, as an integer
ExpValue(expo) ==
  IF expo[1] = 45 THEN -IntOf(DigitValues(Tail(expo)))
  ELSE IF expo[1] = 43 THEN IntOf(DigitValues(Tail(expo)))
  ELSE IntOf(DigitValues(expo))

\* does expo read [sign] digits, with a digit at least
IsExponent(expo) ==
  /\ expo # <<>>
  /\ IF expo[1] \in {43, 45} THEN Len(expo) > 1 /\ AllDigits(Tail(expo)) ELSE AllDigits(expo)

\* does mant read digits [. digits], with a digit at least
IsMantissa(mant, dot) ==
  IF dot = 0 THEN mant # <<>> /\ AllDigits(mant)
  ELSE /\ Len(mant) > 1
       /\ AllDigits(SubSeq(mant, 1, dot - 1))
       /\ AllDigits(SubSeq(mant, dot + 1, Len(mant)))

\* the number of a mantissa with its point at dot (0: no point) and exponent exp
Coefficient(sign, mant, dot, exp) ==
  IF dot = 0 THEN Dec(sign, StripZeros(DigitValues(mant)), exp)
  ELSE Dec(sign, StripZeros(DigitValues(SubSeq(mant, 1, dot - 1) \o SubSeq(mant, dot + 1, Len(mant)))),
           exp - (Len(mant) - dot))

\* Inf, Infinity, NaN and sNaN
Special(sign, low) ==
  IF low \in INF_SPELLINGS THEN Returns(Inf(sign))
  ELSE IF Prefix(low, 3) = NAN_SPELLING /\ AllDigits(SubSeq(low, 4, Len(low)))
  THEN Returns([NaN EXCEPT !.sign = sign, !.int = DigitValues(SubSeq(low, 4, Len(low)))])
  ELSE IF Prefix(low, 4) = SNAN_SPELLING /\ AllDigits(SubSeq(low, 5, Len(low)))
  THEN Returns([NaN EXCEPT !.kind = "sNaN", !.sign = sign,
                           !.int = DigitValues(SubSeq(low, 5, Len(low)))])
  ELSE Raises("InvalidOperation")

\* the text after the sign, e the position of its E (0: none)
Unsigned(sign, body, low, e) ==
  IF e = 0
  THEN IF IsMantissa(body, FirstOf(body, {46}))
       THEN Returns(Coefficient(sign, body, FirstOf(body, {46}), 0))
       ELSE Special(sign, low)
  ELSE IF /\ IsMantissa(SubSeq(body, 1, e - 1), FirstOf(SubSeq(body, 1, e - 1), {46}))
          /\ IsExponent(SubSeq(body, e + 1, Len(body)))
       THEN Returns(Coefficient(sign, SubSeq(body, 1, e - 1),
                                FirstOf(SubSeq(body, 1, e - 1), {46}),
                                ExpValue(SubSeq(body, e + 1, Len(body)))))
       ELSE Special(sign, low)

LowerCase(s) == [i \in 1..Len(s) |-> Lower(s[i])]

Signless(sign, body) == Unsigned(sign, body, LowerCase(body), FirstOf(LowerCase(body), {101}))

Stripped(t) ==
  IF t # <<>> /\ t[1] = 45 THEN Signless(1, Tail(t))
  ELSE IF t # <<>> /\ t[1] = 43 THEN Signless(0, Tail(t))
  ELSE Signless(0, t)

DecimalOf(s) == Stripped(Replace(Strip(s), 95, <<>>))

\* to_decimal(x)
to_decimalNoComma(x) ==
  IF x.kind = "None" THEN Returns(Dec(0, <<0>>, 0))
  ELSE IF x.kind # "str" THEN Returns(x)
  ELSE IF Strip(x.s) = <<>> THEN Returns(Dec(0, <<0>>, 0))
  ELSE DecimalOf(Strip(x.s))

to_decimal(x) ==
  IF x.kind = "None" THEN Returns(Dec(0, <<0>>, 0))
  ELSE IF x.kind # "str" THEN Returns(x)
  ELSE IF Strip(Replace(x.s, 44, <<46>>)) = <<>> THEN Returns(Dec(0, <<0>>, 0))
  ELSE DecimalOf(Strip(Replace(x.s, 44, <<46>>)))

\* the integer digits in groups of three, ',' between the groups
RECURSIVE Group(_)
Group(s) ==
  IF Len(s) <= 3 THEN s
  ELSE Group(SubSeq(s, 1, Len(s) - 3)) \o <<44>> \o SubSeq(s, Len(s) - 2, Len(s))

\* f"{d:,.2f}": d rounded to 2 fractional digits in the context's rounding,
\* then sign, grouped integer digits, '.', fractional digits
Format2f(d) ==
  IF d.kind = "NaN" THEN (IF d.sign = 1 THEN <<45>> ELSE <<>>) \o <<78, 97, 78>> \o DigitChars(d.int)
  ELSE LET r      == Rescale(d, -2, CONTEXT_ROUNDING)
           n      == Len(r.int)
           digits == IF n < 3 THEN [i \in 1..(3 - n) |-> 0] \o r.int ELSE r.int
           m      == Len(digits)
       IN  (IF r.sign = 1 THEN <<45>> ELSE <<>>)
           \o Group(DigitChars(SubSeq(digits, 1, m - 2)))
           \o <<46>> \o DigitChars(SubSeq(digits, m - 1, m))

RS == <<82, 36, 32>>   \* "R$ "

\* the three replace calls of money: ',' and '.' change places
Swapped(text) == Replace(Replace(Replace(text, 44, <<88>>), 46, <<44>>), 88, <<46>>)

\* the f-string of money around the quantized value
Rendered(q) == IF q.exc # "" THEN Raises(q.exc) ELSE Returns(Swapped(RS \o Format2f(q.val)))

\* money(x)
moneyContextRounding(x) == Rendered(Quantize(x, MONEY_Q, CONTEXT_ROUNDING))

money(x) == Rendered(Quantize(x, MONEY_Q, "ROUND_HALF_UP"))

----------------------------------------------------------------------------
(* Prices and sale lines *)

ONE == Dec(0, <<1, 0>>, -1)   \* Decimal('1.0')

\* cost * (ONE + margin / Decimal('100')) of two Decimals: a signalling NaN
\* raises, a quiet NaN is handed on, and an infinity ends in the
\* InvalidOperation of the product or of the quantize that follows
Markup(cost, margin) ==
  IF cost.kind = "sNaN" \/ margin.kind = "sNaN" THEN Raises("InvalidOperation")
  ELSE IF cost.kind = "NaN" THEN Returns(cost)
  ELSE IF margin.kind = "NaN" THEN Returns(margin)
  ELSE IF cost.kind = "Inf" \/ margin.kind = "Inf" THEN Raises("InvalidOperation")
  ELSE Returns(DecMul(cost, DecAdd(ONE, DecDiv100(margin))))

\* .quantize(MONEY_Q) of what a computation returned
Quantized(exact) ==
  IF exact.exc # "" THEN exact ELSE Quantize(exact.val, MONEY_Q, CONTEXT_ROUNDING)

\* the sale price of the converted cost and margin
NoUnit(cost, margin) ==
  IF cost.exc # "" THEN cost
  ELSE IF margin.exc # "" THEN margin
  ELSE Quantized(Returns(DecMul(cost.val, DecDiv100(margin.val))))

Marked(cost, margin) ==
  IF cost.exc # "" THEN cost
  ELSE IF margin.exc # "" THEN margin
  ELSE Quantized(Markup(cost.val, margin.val))

\* ProductRepo.upsert: the sale_price it computes from the data
upsert_sale_priceNoUnit(cost_price, margin_pct) ==
  NoUnit(to_decimal(cost_price), to_decimal(margin_pct))

upsert_sale_price(cost_price, margin_pct) ==
  Marked(to_decimal(cost_price), to_decimal(margin_pct))

\* SalesRepo.add_item: line_total and line_profit of finite Decimals and an int
line_total(unit_price, qty) ==
  Quantize(DecMul(unit_price, DecInt(qty)), MONEY_Q, CONTEXT_ROUNDING)

line_profit(unit_price, unit_cost, qty) ==
  Quantize(DecMul(DecSub(unit_price, unit_cost), DecInt(qty)), MONEY_Q, CONTEXT_ROUNDING)

----------------------------------------------------------------------------
(* PIX (EMV / BR Code) *)

\* crc mask and polynomial of _crc16_ccitt
CRC_INIT == 65535
CRC_HIGH == 32768
CRC_POLY == 4129
CRC_MASK == 65535

\* the literals of build_pix_payload, as code points
GUI_VALUE == <<66, 82, 46, 71, 79, 86, 46, 66, 67, 66, 46, 80, 73, 88>>  \* "BR.GOV.BCB.PIX"
LOJA      == <<76, 79, 74, 65>>                                          \* "LOJA"
CIDADE    == <<67, 73, 68, 65, 68, 69>>                                  \* "CIDADE"
PDVSALE   == <<80, 68, 86, 83, 65, 76, 69>>                              \* "PDVSALE"
CRC_TAG   == <<54, 51, 48, 52>>                                          \* "6304"
NAME_MAX == 25
CITY_MAX == 15
TXID_MAX == 25

\* a two-digit field id as a string
Id(a, b) == <<48 + a, 48 + b>>

\* f"{_id}{len(value):02d}{value}"
_emv_kv(id, v) == id \o Fmt02d(Len(v)) \o v

\* one round of the inner loop of _crc16_ccitt
CrcRound(crc) ==
  LET shifted == IF AndBit(crc, CRC_HIGH) # 0 THEN Xor(crc * 2, CRC_POLY) ELSE crc * 2
  IN  AndLow(shifted, CRC_MASK)

\* CrcByte with the byte XORed into the low 8 bits of the register
CrcByteLow(crc, b) ==
  CrcRound(CrcRound(CrcRound(CrcRound(CrcRound(CrcRound(CrcRound(CrcRound(
    Xor(crc, b)))))))))

\* the loop body of _crc16_ccitt for one byte b
CrcByte(crc, b) ==
  CrcRound(CrcRound(CrcRound(CrcRound(CrcRound(CrcRound(CrcRound(CrcRound(
    Xor(crc, b * 256)))))))))

\* the outer loop of _crc16_ccitt over bytes[lo..hi], first to last: the
\* register after the bytes of the first half (the one element of the set
\* below) is the register the second half starts from
RECURSIVE CrcFrom(_, _, _, _)
CrcFrom(crc, bytes, lo, hi) ==
  IF lo > hi THEN crc
  ELSE IF lo = hi THEN CrcByte(crc, bytes[lo])
  ELSE LET mid == (lo + hi) \div 2
       IN  CHOOSE r \in {CrcFrom(half, bytes, mid + 1, hi) :
                         half \in {CrcFrom(crc, bytes, lo, mid)}} : TRUE

_crc16_ccitt(bytes) == CrcFrom(CRC_INIT, bytes, 1, Len(bytes))

\* line 320
gui == _emv_kv(Id(0, 0), GUI_VALUE)
\* line 321
acc(k) == gui \o _emv_kv(Id(0, 1), k)
\* line 322
mai(k) == _emv_kv(Id(2, 6), acc(k))
\* line 323
pfi == _emv_kv(Id(0, 0), Id(0, 1))
\* line 324
mcc == _emv_kv(Id(5, 2), Zeros(4))
\* line 325
cur == _emv_kv(Id(5, 3), <<57, 56, 54>>)

\* amt without the test amount > 0: a field for every non-zero amount
amtAnySign(a) ==
  IF ~Truthy(a) THEN [exc |-> "", val |-> <<>>]
  ELSE IF a.kind = "NaN" THEN [exc |-> "InvalidOperation", val |-> <<>>]
  ELSE LET q == Quantize(a, MONEY_Q, CONTEXT_ROUNDING)
       IN  IF q.exc # "" THEN [exc |-> q.exc, val |-> <<>>]
           ELSE [exc |-> "", val |-> _emv_kv(Id(5, 4), DecStr(q.val))]

\* line 326: the amount field, or "" when there is none; the comparison
\* amount > 0 raises on NaN, quantize uses the context's rounding
amt(a) ==
  IF ~Truthy(a) THEN [exc |-> "", val |-> <<>>]
  ELSE IF a.kind = "NaN" THEN [exc |-> "InvalidOperation", val |-> <<>>]
  ELSE IF ~Positive(a) THEN [exc |-> "", val |-> <<>>]
  ELSE LET q == Quantize(a, MONEY_Q, CONTEXT_ROUNDING)
       IN  IF q.exc # "" THEN [exc |-> q.exc, val |-> <<>>]
           ELSE [exc |-> "", val |-> _emv_kv(Id(5, 4), DecStr(q.val))]

\* line 327
cty == _emv_kv(Id(5, 8), <<66, 82>>)
\* line 328
mname(n) == _emv_kv(Id(5, 9), IF Prefix(n, NAME_MAX) # <<>> THEN Prefix(n, NAME_MAX) ELSE LOJA)
\* mcity keeping one character more than the limit
mcityOffByOne(c) ==
  _emv_kv(Id(6, 0), IF Prefix(c, CITY_MAX + 1) # <<>> THEN Prefix(c, CITY_MAX + 1) ELSE CIDADE)

\* line 329
mcity(c) == _emv_kv(Id(6, 0), IF Prefix(c, CITY_MAX) # <<>> THEN Prefix(c, CITY_MAX) ELSE CIDADE)
\* line 330
tx(t) == _emv_kv(Id(0, 5), Prefix(t, TXID_MAX))
\* line 331
add(t) == _emv_kv(Id(6, 2), tx(t))

\* partial with the merchant-account field put before the field 00
partialAccountFirst(k, n, c, amtv, t) ==
  mai(k) \o pfi \o mcc \o cur \o amtv \o cty \o mname(n) \o mcity(c) \o add(t) \o CRC_TAG

\* line 332: the payload up to and including "6304"; amtv is the amount field
partial(k, n, c, amtv, t) ==
  pfi \o mai(k) \o mcc \o cur \o amtv \o cty \o mname(n) \o mcity(c) \o add(t) \o CRC_TAG

\* Seal with the checksum taken over the characters instead of the UTF-8 bytes
SealOverChars(p) ==
  [exc |-> "", val |-> p \o Fmt04X(_crc16_ccitt([i \in 1..Len(p) |-> p[i] % 256]))]

\* lines 333-335: the checksum over the UTF-8 bytes, appended as 4 hex digits
Seal(p) ==
  LET bytes == Utf8Encode(p)
  IN  IF bytes.exc # "" THEN [exc |-> bytes.exc, val |-> <<>>]
      ELSE [exc |-> "", val |-> p \o Fmt04X(_crc16_ccitt(bytes.val))]

\* line 319: "not key or not merchant_name or not merchant_city"
NoPayee(k, n, c) == k = <<>> \/ n = <<>> \/ c = <<>>

build_pix_payload(k, n, c, a, t) ==
  IF NoPayee(k, n, c) THEN [exc |-> "", val |-> <<>>]
  ELSE LET amtf == amt(a)
       IN  IF amtf.exc # "" THEN [exc |-> amtf.exc, val |-> <<>>]
           ELSE Seal(partial(k, n, c, amtf.val, t))

----------------------------------------------------------------------------
(* The calls checked: every call is drawn in the initial state and made    *)
(* by one action.                                                          *)

\* a string of n characters, no two neighbours equal: "ABC...ZABC..."
Str(n) == [i \in 1..n |-> 65 + ((i - 1) % 26)]

\* "Jé€" and U+1F600: characters of 1, 2, 3 and 4 UTF-8 bytes
NonAscii == <<74, 233, 8364, 128512>>
\* a lone surrogate, which str can hold and UTF-8 cannot encode
Surrogate == <<55296>>

Keys   == {<<>>, <<107>>, NonAscii, Surrogate, Str(KeyLong - 1), Str(KeyLong)}
Names  == {<<>>, NonAscii, Str(NAME_MAX), Str(NAME_MAX + Over)}
Cities == {<<>>, <<83, 227, 111>>, Str(CITY_MAX), Str(CITY_MAX + Over)}
Txids  == {<<>>, PDVSALE, Str(TXID_MAX + Over)}

\* 25 nines, then 995 or 9995
Nines(n) == [i \in 1..n |-> 9]

SmallInts == {<<0>>, <<1>>, <<5>>, <<1, 2>>, <<1, 2, 5>>, <<1, 3, 5>>, <<1, 2, 6>>,
              <<9, 9, 5>>, <<1, 2, 3, 4, 5>>}
SmallExps == {-5, -3, -2, -1, 0, 3}

Amounts ==
  {None, NaN, Inf(0), Inf(1)}
  \cup {Dec(sg, int, e) : sg \in {0, 1}, int \in SmallInts, e \in SmallExps}
  \cup {Dec(0, <<1>>, PREC - 3), Dec(0, <<1>>, PREC - 2),
        Dec(0, Nines(PREC - 3) \o <<9, 9, 5>>, -3),
        Dec(0, Nines(PREC - 2) \o <<9, 9, 5>>, -3)}

\* the amounts tried with every combination of strings
FewAmounts == {None, Dec(0, <<1, 2, 3, 4>>, -2)}

CrcVector == <<49, 50, 51, 52, 53, 54, 55, 56, 57>>   \* b"123456789"
CrcBytes == {0, 49, 128, 255}
RECURSIVE SeqsUpTo(_, _)
SeqsUpTo(S, n) ==
  IF n = 0 THEN {<<>>}
  ELSE LET shorter == SeqsUpTo(S, n - 1)
       IN  shorter \cup {Append(q, x) : q \in shorter, x \in S}
CrcInputs == SeqsUpTo(CrcBytes, MaxCrcLen) \cup {CrcVector}

KvIds == {Id(0, 0), Id(2, 6), Id(5, 9)}
KvValues == {Str(n) : n \in {0, 1, 9, 10, 99, 99 + Over}} \cup {NonAscii}

NoRet == [exc |-> "", val |-> <<>>]

InitBuild ==
  /\ op = "build_pix_payload"
  /\ \/ /\ key = <<107>>
        /\ merchant_name = Str(2)
        /\ merchant_city = Str(3)
        /\ txid = PDVSALE
        /\ amount \in Amounts
     \/ /\ key \in Keys
        /\ merchant_name \in Names
        /\ merchant_city \in Cities
        /\ txid \in Txids
        /\ amount \in FewAmounts
  /\ _id = <<>> /\ value = <<>> /\ data = <<>>

InitKv ==
  /\ op = "_emv_kv"
  /\ _id \in KvIds
  /\ value \in KvValues
  /\ key = <<>> /\ merchant_name = <<>> /\ merchant_city = <<>>
  /\ txid = <<>> /\ amount = None /\ data = <<>>

InitCrc ==
  /\ op = "_crc16_ccitt"
  /\ data \in CrcInputs
  /\ key = <<>> /\ merchant_name = <<>> /\ merchant_city = <<>>
  /\ txid = <<>> /\ amount = None /\ _id = <<>> /\ value = <<>>

\* DEFAULT_SETTINGS, of the columns modelled: "Minha Adega", "", "SAO PAULO"
DEFAULT_SETTINGS ==
  [store_name |-> PyStr(<<77, 105, 110, 104, 97, 32, 65, 100, 101, 103, 97>>),
   pix_key |-> PyStr(<<>>),
   pix_merchant_city |-> PyStr(<<83, 65, 79, 32, 80, 65, 85, 76, 79>>)]

\* no PosPage in this run: no cart, the settings of init_database, nothing
\* handed to the printer
NoPos ==
  /\ pos = [master |-> "", cart |-> <<>>]
  /\ settings = DEFAULT_SETTINGS
  /\ printer = <<>>
  /\ history = <<>>

PixInit ==
  /\ pc = "call"
  /\ ret = NoRet
  /\ (InitBuild \/ InitKv \/ InitCrc)
  /\ args = <<>> /\ products = <<>> /\ sales = <<>> /\ sale_items = <<>>
  /\ NoPos

Call_build_pix_payload ==
  /\ pc = "call" /\ op = "build_pix_payload"
  /\ ret' = build_pix_payload(key, merchant_name, merchant_city, amount, txid)
  /\ pc' = "done"
  /\ UNCHANGED <<op, key, merchant_name, merchant_city, amount, txid, _id, value, data, pos, settings, printer, history>>
  /\ UNCHANGED <<args, products, sales, sale_items>>

Call_emv_kv ==
  /\ pc = "call" /\ op = "_emv_kv"
  /\ ret' = [exc |-> "", val |-> _emv_kv(_id, value)]
  /\ pc' = "done"
  /\ UNCHANGED <<op, key, merchant_name, merchant_city, amount, txid, _id, value, data, pos, settings, printer, history>>
  /\ UNCHANGED <<args, products, sales, sale_items>>

Call_crc16_ccitt ==
  /\ pc = "call" /\ op = "_crc16_ccitt"
  /\ ret' = [exc |-> "", val |-> _crc16_ccitt(data)]
  /\ pc' = "done"
  /\ UNCHANGED <<op, key, merchant_name, merchant_city, amount, txid, _id, value, data, pos, settings, printer, history>>
  /\ UNCHANGED <<args, products, sales, sale_items>>

PixNext == Call_build_pix_payload \/ Call_emv_kv \/ Call_crc16_ccitt

PixSpec == PixInit /\ [][PixNext]_vars

----------------------------------------------------------------------------
(* The tables products, sales and sale_items, each the sequence of its     *)
(* rows in the order of their AUTO_INCREMENT ids; a row holds the          *)
(* parameters of the statement that wrote it.                              *)

\* float(d) of a finite Decimal d of at most 15 significant digits, held as
\* repr(float(d)): the shortest decimal that reads back as the same double,
\* which is d without its trailing zeros
RECURSIVE FloatOf(_, _, _)
FloatOf(sign, int, exp) ==
  IF int = <<0>> THEN [kind |-> "float", sign |-> sign, int |-> <<0>>, exp |-> 0]
  ELSE IF int[Len(int)] = 0 THEN FloatOf(sign, SubSeq(int, 1, Len(int) - 1), exp + 1)
  ELSE [kind |-> "float", sign |-> sign, int |-> int, exp |-> exp]

Float(d) == FloatOf(d.sign, d.int, d.exp)

\* the values upsert hands to its statement, of the columns modelled
ProductRowAsSupplied(d, sale_price) ==
  [sku |-> d.sku, cost_price |-> d.cost_price, margin_pct |-> d.margin_pct,
   sale_price |-> d.sale_price, stock_qty |-> d.stock_qty]

ProductRow(d, sale_price) ==
  [sku |-> d.sku, cost_price |-> d.cost_price, margin_pct |-> d.margin_pct,
   sale_price |-> sale_price, stock_qty |-> d.stock_qty]

\* the rows of products after the UPDATE or INSERT of upsert
Written_(rows, row, found) ==
  IF found # {} THEN [rows EXCEPT ![CHOOSE i \in found : TRUE] = row] ELSE Append(rows, row)

\* upsert once its sale price is computed
Priced_(rows, d, price) ==
  IF price.exc # "" THEN [ret |-> Raises(price.exc), products |-> rows]
  ELSE [ret |-> Returns(None),
        products |-> Written_(rows, ProductRow(d, price.val),
                              {i \in 1..Len(rows) : rows[i].sku = d.sku})]

\* ProductRepo.upsert(data) on the rows of products: what it returns or raises,
\* and the rows it leaves
Upsert(rows, d) == Priced_(rows, d, upsert_sale_price(d.cost_price, d.margin_pct))

Upserted(u) ==
  /\ ret' = u.ret
  /\ products' = u.products
  /\ UNCHANGED <<sales, sale_items>>

\* ProductRepo.upsert(data)
upsert(d) == Upserted(Upsert(products, d))

\* ProductRepo.adjust_stock(product_id, delta_qty)
adjust_stock(product_id, delta_qty) ==
  /\ products' = [i \in 1..Len(products) |->
                    IF i = product_id
                    THEN [products[i] EXCEPT !.stock_qty = @ + delta_qty]
                    ELSE products[i]]
  /\ ret' = Returns(None)
  /\ UNCHANGED <<sales, sale_items>>

\* the values create_sale hands to its statement
SaleRow(user_id, payment_method, subtotal, discount, total, received, change_due) ==
  [user_id |-> user_id, payment_method |-> payment_method,
   subtotal |-> Float(subtotal), discount |-> Float(discount),
   total |-> Float(total), received |-> Float(received),
   change_due |-> Float(change_due)]

\* SalesRepo.create_sale(...)
create_sale(user_id, payment_method, subtotal, discount, total, received, change_due) ==
  /\ sales' = Append(sales, SaleRow(user_id, payment_method, subtotal, discount,
                                     total, received, change_due))
  /\ ret' = Returns(Len(sales) + 1)
  /\ UNCHANGED <<products, sale_items>>

\* INSERT INTO sale_items
InsertItemMerging(rows, row) ==
  LET same == {i \in 1..Len(rows) : rows[i].sale_id = row.sale_id
                                    /\ rows[i].product_id = row.product_id}
  IN  IF same = {} THEN Append(rows, row)
      ELSE [rows EXCEPT ![CHOOSE i \in same : TRUE] = row]

InsertItem(rows, row) == Append(rows, row)

\* add_item once line_total and line_profit are computed; fk_items_sale and
\* fk_items_product refuse a row whose sale or product does not exist
Totalled(sale_id, product_id, qty, unit_price, unit_cost, margin_pct, total, profit) ==
  IF total.exc # "" THEN ret' = Raises(total.exc) /\ UNCHANGED <<products, sales, sale_items>>
  ELSE IF profit.exc # "" THEN ret' = Raises(profit.exc) /\ UNCHANGED <<products, sales, sale_items>>
  ELSE IF sale_id \notin 1..Len(sales) \/ product_id \notin 1..Len(products)
  THEN ret' = Raises("IntegrityError") /\ UNCHANGED <<products, sales, sale_items>>
  ELSE /\ sale_items' =
            InsertItem(sale_items,
              [sale_id |-> sale_id, product_id |-> product_id, qty |-> qty,
               unit_price |-> Float(unit_price), unit_cost |-> Float(unit_cost),
               margin_pct |-> Float(margin_pct),
               line_total |-> Float(total.val), line_profit |-> Float(profit.val)])
       /\ ret' = Returns([line_total |-> total.val, line_profit |-> profit.val])
       /\ UNCHANGED <<products, sales>>

\* SalesRepo.add_item(...)
add_item(sale_id, product_id, qty, unit_price, unit_cost, margin_pct) ==
  Totalled(sale_id, product_id, qty, unit_price, unit_cost, margin_pct,
           line_total(unit_price, qty), line_profit(unit_price, unit_cost, qty))

----------------------------------------------------------------------------
(* One call of to_decimal, money, upsert or add_item: the call is drawn in *)
(* the initial state; a saved product is saved once more with its sale     *)
(* price as the cost and no margin.                                        *)

\* the longest string of Chars tried
MaxStrLen == 3

\* 0 1 5 , . space e - _ x
Chars == {48, 49, 53, 44, 46, 32, 101, 45, 95, 120}

IntParts  == {<<48>>, <<49, 50>>, <<48, 48, 55>>}               \* "0" "12" "007"
FracParts == {<<53>>, <<53, 48>>, <<48, 53>>}                   \* "5" "50" "05"
Blanks    == {<<>>, <<32>>, <<9, 10>>}                          \* "" " " "\t\n"

\* [blank] digits , or . digits [blank]
Written == {pre \o i \o <<sep>> \o f \o post :
              pre \in Blanks, i \in IntParts, sep \in {44, 46}, f \in FracParts, post \in Blanks}

Spelled == {<<49, 46, 50, 51, 52, 44, 53, 54>>,                 \* "1.234,56"
            <<49, 101, 51>>, <<49, 69, 43, 50>>,                \* "1e3" "1E+2"
            <<78, 97, 78>>, <<115, 78, 97, 78>>,                \* "NaN" "sNaN"
            <<73, 110, 102, 105, 110, 105, 116, 121>>,          \* "Infinity"
            <<45, 105, 110, 102>>,                              \* "-inf"
            <<97, 98, 99>>, <<32, 32>>, <<49, 50, 44, 53, 120>>} \* "abc" "  " "12,5x"

ToDecimalInputs ==
  {None, Dec(0, <<1, 5>>, -1), NaN}
  \cup {PyStr(s) : s \in SeqsUpTo(Chars, MaxStrLen) \cup Written \cup Spelled}

MoneyInputs ==
  (Amounts \ {None})
  \cup {Dec(sg, int, -3) : sg \in {0, 1},
                           int \in {<<1, 2, 3, 4, 5, 0, 0>>, <<9, 9, 9, 9, 9, 5>>,
                                    <<1, 2, 3, 4, 5, 6, 7, 8, 9, 1>>, <<9, 9, 9, 9, 9, 9, 9, 9, 5>>}}

SkuA == <<65>>
SkuB == <<66>>

\* 0, 0.50, 0.5, 1.50, 10, 10.00, 0.005, 2.675, 19.99, 123.45, -1.50
Costs == {Dec(0, <<0>>, 0), Dec(0, <<5, 0>>, -2), Dec(0, <<5>>, -1), Dec(0, <<1, 5, 0>>, -2),
          Dec(0, <<1, 0>>, 0), Dec(0, <<1, 0, 0, 0>>, -2), Dec(0, <<5>>, -3),
          Dec(0, <<2, 6, 7, 5>>, -3), Dec(0, <<1, 9, 9, 9>>, -2),
          Dec(0, <<1, 2, 3, 4, 5>>, -2), Dec(1, <<1, 5, 0>>, -2)}

\* 0, 1, 3, 12.5, 50, 50.00, 100, 33.33, -100
Margins == {Dec(0, <<0>>, 0), Dec(0, <<1>>, 0), Dec(0, <<3>>, 0), Dec(0, <<1, 2, 5>>, -1),
            Dec(0, <<5, 0>>, 0), Dec(0, <<5, 0, 0, 0>>, -2), Dec(0, <<1, 0, 0>>, 0),
            Dec(0, <<3, 3, 3, 3>>, -2), Dec(1, <<1, 0, 0>>, 0)}

\* the sale price a caller may supply: none, or 9.99
Supplied == {None, Dec(0, <<9, 9, 9>>, -2)}

Data(sku, cost_price, margin_pct, sale_price, stock_qty) ==
  [sku |-> sku, cost_price |-> cost_price, margin_pct |-> margin_pct,
   sale_price |-> sale_price, stock_qty |-> stock_qty]

\* a product saved earlier: cost 1.00, margin 50, price 1.50, 5 in stock
Saved(sku) ==
  ProductRow(Data(sku, Dec(0, <<1, 0, 0>>, -2), Dec(0, <<5, 0>>, 0), None, 5),
             Dec(0, <<1, 5, 0>>, -2))

\* a sale of 1.50 paid in cash
Sold == SaleRow(1, <<68>>, Dec(0, <<1, 5, 0>>, -2), Dec(0, <<0>>, 0),
                Dec(0, <<1, 5, 0>>, -2), Dec(0, <<2, 0, 0>>, -2), Dec(0, <<5, 0>>, -2))

Qtys == {-2, 0, 1, 2, 3, 10}
\* 0, 0.125, 0.135, 0.005, 0.015, 0.025, 1.50, 12.34
UnitPrices == {Dec(0, <<0>>, 0), Dec(0, <<1, 2, 5>>, -3), Dec(0, <<1, 3, 5>>, -3),
               Dec(0, <<5>>, -3), Dec(0, <<1, 5>>, -3), Dec(0, <<2, 5>>, -3),
               Dec(0, <<1, 5, 0>>, -2), Dec(0, <<1, 2, 3, 4>>, -2)}
\* 0, 1.00, 0.010, 0.02
UnitCosts == {Dec(0, <<0>>, 0), Dec(0, <<1, 0, 0>>, -2), Dec(0, <<1, 0>>, -3), Dec(0, <<2>>, -2)}

NoPix ==
  /\ key = <<>> /\ merchant_name = <<>> /\ merchant_city = <<>>
  /\ txid = <<>> /\ amount = None /\ _id = <<>> /\ value = <<>> /\ data = <<>>

InitToDecimal ==
  /\ op = "to_decimal"
  /\ args \in {[x |-> x] : x \in ToDecimalInputs}
  /\ products = <<>> /\ sales = <<>> /\ sale_items = <<>>

InitMoney ==
  /\ op = "money"
  /\ args \in {[x |-> x] : x \in MoneyInputs}
  /\ products = <<>> /\ sales = <<>> /\ sale_items = <<>>

InitUpsert ==
  /\ op = "upsert"
  /\ args \in {[data |-> Data(SkuA, c, m, s, 5)] : c \in Costs, m \in Margins, s \in Supplied}
  /\ products \in {<<>>, <<Saved(SkuA)>>, <<Saved(SkuB)>>}
  /\ sales = <<>> /\ sale_items = <<>>

InitAddItem ==
  /\ op = "add_item"
  /\ args \in {[sale_id |-> s, product_id |-> 1, qty |-> q, unit_price |-> p,
                unit_cost |-> u, margin_pct |-> Dec(0, <<5, 0>>, 0)] :
                 s \in {1, 2}, q \in Qtys, p \in UnitPrices, u \in UnitCosts}
  /\ products = <<Saved(SkuA)>> /\ sales = <<Sold>> /\ sale_items = <<>>

CalcInit ==
  /\ pc = "call"
  /\ ret = NoRet
  /\ NoPix /\ NoPos
  /\ (InitToDecimal \/ InitMoney \/ InitUpsert \/ InitAddItem)

Call_to_decimal ==
  /\ pc = "call" /\ op = "to_decimal"
  /\ ret' = to_decimal(args.x)
  /\ pc' = "done"
  /\ UNCHANGED <<op, key, merchant_name, merchant_city, amount, txid, _id, value, data, pos, settings, printer, history>>
  /\ UNCHANGED <<args, products, sales, sale_items>>

Call_money ==
  /\ pc = "call" /\ op = "money"
  /\ ret' = money(args.x)
  /\ pc' = "done"
  /\ UNCHANGED <<op, key, merchant_name, merchant_city, amount, txid, _id, value, data, pos, settings, printer, history>>
  /\ UNCHANGED <<args, products, sales, sale_items>>

Call_upsert ==
  /\ pc = "call" /\ op = "upsert"
  /\ upsert(args.data)
  /\ pc' = "done"
  /\ UNCHANGED <<op, key, merchant_name, merchant_city, amount, txid, _id, value, data, pos, settings, printer, history>>
  /\ UNCHANGED args

\* the product row of a sku
RowOf(rows, sku) == rows[CHOOSE i \in 1..Len(rows) : rows[i].sku = sku]

\* the data of the second save: the stored price as the cost, no margin
Again(d, before) == [d EXCEPT !.cost_price = before, !.margin_pct = Dec(0, <<0>>, 0)]

Again_upsert ==
  /\ pc = "done" /\ op = "upsert" /\ ret.exc = ""
  /\ upsert(Again(args.data, RowOf(products, args.data.sku).sale_price))
  /\ args' = [data |-> args.data, before |-> RowOf(products, args.data.sku).sale_price]
  /\ pc' = "again"
  /\ UNCHANGED <<op, key, merchant_name, merchant_city, amount, txid, _id, value, data, pos, settings, printer, history>>

Call_add_item ==
  /\ pc = "call" /\ op = "add_item"
  /\ add_item(args.sale_id, args.product_id, args.qty, args.unit_price,
              args.unit_cost, args.margin_pct)
  /\ pc' = "done"
  /\ UNCHANGED <<op, key, merchant_name, merchant_city, amount, txid, _id, value, data, pos, settings, printer, history>>
  /\ UNCHANGED args

CalcNext == Call_to_decimal \/ Call_money \/ Call_upsert \/ Again_upsert \/ Call_add_item

CalcSpec == CalcInit /\ [][CalcNext]_vars

----------------------------------------------------------------------------
(* The product page and the repositories at work on one database: products *)
(* are saved from the form and imported from CSV files, sales are created, *)
(* lines added and stock adjusted, in any order.                           *)

\* rows of sale_items, rows of sales
MaxItems == 2
MaxSales == 1
\* how far below zero the stock is followed
Oversold == 1

\* int(s or 0) of a string of digits
ToInt(s) ==
  IF s = <<>> THEN Returns(0)
  ELSE IF AllDigits(s) THEN Returns(IntOf(DigitValues(s)))
  ELSE Raises("ValueError")

\* the data of a form or of a CSV row once its fields are converted
Converted(sku, name, cost, margin, sale, stock) ==
  IF cost.exc # "" THEN cost
  ELSE IF margin.exc # "" THEN margin
  ELSE IF sale.exc # "" THEN sale
  ELSE IF stock.exc # "" THEN stock
  ELSE Returns([sku |-> sku, name |-> name, cost_price |-> cost.val, margin_pct |-> margin.val,
                sale_price |-> sale.val, stock_qty |-> stock.val])

\* data.get('sale_price') or 0
OrZero(s) == IF s = <<>> THEN <<48>> ELSE s

\* ProductForm._save: the data handed to on_save, of the fields modelled
_save(f) ==
  Converted(Strip(f.sku), Strip(f.name),
            to_decimal(PyStr(Strip(f.cost_price))), to_decimal(PyStr(Strip(f.margin_pct))),
            to_decimal(PyStr(OrZero(Strip(f.sale_price)))), ToInt(Strip(f.stock_qty)))

\* ProductPage.save_product(data) on the rows of products
SaveProduct(rows, d) ==
  IF d.sku = <<>> \/ d.name = <<>> THEN rows ELSE Upsert(rows, d).products

\* a column of a CSV row, stripped; a column that the file lacks is None
Column(v) == IF v.kind = "None" THEN v ELSE PyStr(Strip(v.s))

\* ProductPage.import_csv: the data of one row of the file
CsvData(row) ==
  Converted(Strip(row.sku.s), Column(row.name),
            IF row.cost_price.kind = "None" THEN Returns(None)
            ELSE to_decimal(Column(row.cost_price)),
            IF row.margin_pct.kind = "None" THEN Returns(None)
            ELSE to_decimal(Column(row.margin_pct)),
            Returns(Column(row.sale_price)),
            IF row.stock_qty.kind = "None" THEN Returns(None)
            ELSE ToInt(Strip(row.stock_qty.s)))

\* one row of the file: upserted, or counted as an error if it raises
Imported(done, d) ==
  IF d.exc # "" \/ Upsert(done.products, d.val).ret.exc # ""
  THEN [done EXCEPT !.errors = @ + 1]
  ELSE [products |-> Upsert(done.products, d.val).products,
        count |-> done.count + 1, errors |-> done.errors]

\* ProductPage.import_csv: the rows of the file, one after the other
RECURSIVE ImportCsv(_, _)
ImportCsv(rows, file) ==
  IF file = <<>> THEN [products |-> rows, count |-> 0, errors |-> 0]
  ELSE Imported(ImportCsv(rows, SubSeq(file, 1, Len(file) - 1)), CsvData(file[Len(file)]))

\* cost and margin as typed: 0,50 at 1, 2.00 at 50, and x at 1
Priced == {<<<<48, 44, 53, 48>>, <<49>>>>, <<<<50, 46, 48, 48>>, <<53, 48>>>>,
           <<<<120>>, <<49>>>>}

NINE99 == <<57, 44, 57, 57>>   \* "9,99"

\* what the form holds when Salvar is pressed: a product with or without a
\* sale price typed in, and a form without a name
Forms == {[sku |-> SkuA, name |-> <<86>>, cost_price |-> pr[1], margin_pct |-> pr[2],
           sale_price |-> sp, stock_qty |-> <<50>>] : pr \in Priced, sp \in {<<>>, NINE99}}
         \cup {[sku |-> SkuA, name |-> <<>>, cost_price |-> <<49>>, margin_pct |-> <<49>>,
                sale_price |-> <<>>, stock_qty |-> <<50>>]}

CsvRow(cost_price, margin_pct, sale_price) ==
  [sku |-> PyStr(SkuA), name |-> PyStr(<<86>>), cost_price |-> PyStr(cost_price),
   margin_pct |-> PyStr(margin_pct), sale_price |-> sale_price, stock_qty |-> PyStr(<<50>>)]

\* rows of a CSV file: 2.00 at 50 without a sale_price column, 0,50 at 1
\* with a sale_price of 9,99, and a row whose cost does not parse
ROW_A == CsvRow(<<50, 46, 48, 48>>, <<53, 48>>, None)
ROW_B == CsvRow(<<48, 44, 53, 48>>, <<49>>, PyStr(NINE99))
ROW_X == CsvRow(<<120>>, <<49>>, None)

Files == {<<>>, <<ROW_B>>, <<ROW_B, ROW_A>>, <<ROW_A, ROW_X, ROW_B>>}

RepoInit ==
  /\ pc = "repo" /\ op = "" /\ args = <<>> /\ ret = NoRet
  /\ NoPix /\ NoPos
  /\ products = <<>> /\ sales = <<>> /\ sale_items = <<>>

\* what pressing Salvar leaves: what _save raises leaves the handler, what
\* upsert raises is shown by save_product
Saved_(d) ==
  /\ ret' = IF d.exc # "" THEN Raises(d.exc) ELSE Returns(None)
  /\ products' = IF d.exc # "" THEN products ELSE SaveProduct(products, d.val)
  /\ UNCHANGED <<sales, sale_items>>

\* Salvar/Atualizar: ProductForm._save, then ProductPage.save_product
Do_save ==
  \E f \in Forms :
    /\ op' = "_save" /\ args' = f
    /\ Saved_(_save(f))
    /\ UNCHANGED <<pc, key, merchant_name, merchant_city, amount, txid, _id, value, data, pos, settings, printer, history>>

\* what import_csv leaves, and the counts it shows
Shown(r) ==
  /\ ret' = Returns([count |-> r.count, errors |-> r.errors])
  /\ products' = r.products
  /\ UNCHANGED <<sales, sale_items>>

\* Importar CSV
Do_import_csv ==
  \E file \in Files :
    /\ op' = "import_csv" /\ args' = file
    /\ Shown(ImportCsv(products, file))
    /\ UNCHANGED <<pc, key, merchant_name, merchant_city, amount, txid, _id, value, data, pos, settings, printer, history>>

\* adjust_stock(product_id, -qty), as finish_sale calls it
Do_adjust_stock ==
  \E product_id \in 1..Len(products), qty \in {2} :
    /\ products[product_id].stock_qty - qty >= -Oversold
    /\ op' = "adjust_stock" /\ args' = [product_id |-> product_id, delta_qty |-> -qty]
    /\ adjust_stock(product_id, -qty)
    /\ UNCHANGED <<pc, key, merchant_name, merchant_city, amount, txid, _id, value, data, pos, settings, printer, history>>

\* create_sale: 1.50 paid with 2.00 in cash
Do_create_sale ==
  /\ Len(sales) < MaxSales
  /\ op' = "create_sale" /\ args' = <<>>
  /\ create_sale(1, <<68>>, Dec(0, <<1, 5, 0>>, -2), Dec(0, <<0>>, 0),
                 Dec(0, <<1, 5, 0>>, -2), Dec(0, <<2, 0, 0>>, -2), Dec(0, <<5, 0>>, -2))
  /\ UNCHANGED <<pc, key, merchant_name, merchant_city, amount, txid, _id, value, data, pos, settings, printer, history>>

\* add_item for a product at the price, cost and margin it has now
Do_add_item ==
  /\ Len(sale_items) < MaxItems
  /\ \E sale_id \in 1..Len(sales), product_id \in 1..Len(products), qty \in {2} :
       /\ op' = "add_item"
       /\ args' = [sale_id |-> sale_id, product_id |-> product_id, qty |-> qty]
       /\ add_item(sale_id, product_id, qty, products[product_id].sale_price,
                   to_decimal(products[product_id].cost_price).val,
                   to_decimal(products[product_id].margin_pct).val)
  /\ UNCHANGED <<pc, key, merchant_name, merchant_city, amount, txid, _id, value, data, pos, settings, printer, history>>

RepoNext == Do_save \/ Do_import_csv \/ Do_adjust_stock \/ Do_create_sale \/ Do_add_item

RepoSpec == RepoInit /\ [][RepoNext]_vars

----------------------------------------------------------------------------
(* The point of sale: the PosPage with its cart, over the tables.  A cart  *)
(* line holds what the Treeview holds, text: product_id, name, qty,        *)
(* unit_price and line_total.                                              *)

\* the largest quantity of a cart line followed
MaxQty == 2

\* ProductRepo.get_by_barcode: the ids of the rows with the barcode
get_by_barcode(rows, barcode) == {i \in 1..Len(rows) : rows[i].barcode = barcode}

\* int(vals[0]), int(vals[2])
ToNumber(s) == IntOf(DigitValues(s))

\* to_decimal(vals[3]), to_decimal(vals[4]): the text of a cart line read back
ToAmount(s) == to_decimal(PyStr(s)).val

\* values=(pid, name, qty, f"{unit_price}", f"{line_total}")
CartLine(pid, name, qty, unit_price, total) ==
  [product_id |-> DecDigits(pid), name |-> name, qty |-> DecDigits(qty),
   unit_price |-> DecStr(unit_price), line_total |-> DecStr(total)]

\* the cart lines of a product
InCart(cart, pid) == {k \in 1..Len(cart) : ToNumber(cart[k].product_id) = pid}

\* lines 816-819: the first line of the product gets one more, at the
\* unit price the line already has
OneMore(cart, k, pid, name, qty, unit_price, total) ==
  IF total.exc # "" THEN cart
  ELSE [cart EXCEPT ![k] = CartLine(pid, name, qty, unit_price, total.val)]

\* lines 819-820 with the line total left at the unit price
BumpedStale(cart, k, pid, name, qty, unit_price) ==
  OneMore(cart, k, pid, name, qty, unit_price, Returns(unit_price))

Bumped(cart, k, pid, name, qty, unit_price) ==
  OneMore(cart, k, pid, name, qty, unit_price,
          Quantize(DecMul(unit_price, DecInt(qty)), MONEY_Q, CONTEXT_ROUNDING))

\* lines 821-822: a new line of one unit at the product's sale price
Inserted(cart, pid, name, unit_price) ==
  Append(cart, CartLine(pid, name, 1, unit_price, unit_price))

\* lines 816-822
Added(cart, pid, row, lines) ==
  IF lines # {}
  THEN Bumped(cart, CHOOSE k \in lines : \A j \in lines : k <= j, pid, row.name,
              ToNumber(cart[CHOOSE k \in lines : \A j \in lines : k <= j].qty) + 1,
              ToAmount(cart[CHOOSE k \in lines : \A j \in lines : k <= j].unit_price))
  ELSE Inserted(cart, pid, row.name, to_decimal(row.sale_price).val)

\* the out-of-stock prompt is shown
Prompted(rows, found) == found # {} /\ rows[CHOOSE i \in found : TRUE].stock_qty <= 0

\* lines 811-822, for the row found
Scanned(cart, rows, found, confirm) ==
  IF found = {} THEN cart
  ELSE IF Prompted(rows, found) /\ ~confirm THEN cart
  ELSE Added(cart, CHOOSE i \in found : TRUE, rows[CHOOSE i \in found : TRUE],
             InCart(cart, CHOOSE i \in found : TRUE))

\* PosPage.add_by_barcode: the cart it leaves; confirm is the answer to the
\* out-of-stock prompt
add_by_barcode(cart, rows, code, confirm) ==
  IF Strip(code) = <<>> THEN cart
  ELSE Scanned(cart, rows, get_by_barcode(rows, Strip(code)), confirm)

\* PosPage.remove_selected: the lines selected are deleted
RECURSIVE remove_selected(_, _)
remove_selected(cart, selection) ==
  IF cart = <<>> THEN <<>>
  ELSE remove_selected(SubSeq(cart, 1, Len(cart) - 1), selection)
       \o (IF Len(cart) \in selection THEN <<>> ELSE <<cart[Len(cart)]>>)

\* PosPage.clear_cart
clear_cart(cart) == <<>>

\* PosPage._recalc: the sum of the line totals, from Decimal('0')
RECURSIVE _recalc(_)
_recalc(cart) ==
  IF cart = <<>> THEN Dec(0, <<0>>, 0)
  ELSE DecAdd(_recalc(SubSeq(cart, 1, Len(cart) - 1)), ToAmount(cart[Len(cart)].line_total))

\* the payment methods of the combobox used: "Dinheiro", "Crédito", "PIX"
DINHEIRO == <<68, 105, 110, 104, 101, 105, 114, 111>>
CREDITO  == <<67, 114, 233, 100, 105, 116, 111>>
PIX      == <<80, 73, 88>>

\* a < b of finite a and b
Less(a, b) == DecSub(a, b).sign = 1 /\ DecSub(a, b).int # <<0>>

\* c.upper() of a letter a..z or of a Latin-1 letter with an upper case in
\* Latin-1; digits, blanks and capitals stay
Upper(c) ==
  IF (c >= 97 /\ c <= 122) \/ (c >= 224 /\ c <= 254 /\ c # 247) THEN c - 32 ELSE c

UpperCase(s) == [i \in 1..Len(s) |-> Upper(s[i])]

\* v or default, of a column that is NULL, '' or a text
OrElse(v, default) == IF v.kind = "None" \/ v.s = <<>> THEN default ELSE v.s

\* lines 834-838: the items read from the cart
Items(cart) ==
  [k \in 1..Len(cart) |->
     [product_id |-> ToNumber(cart[k].product_id), name |-> cart[k].name,
      qty |-> ToNumber(cart[k].qty), unit_price |-> ToAmount(cart[k].unit_price),
      line_total |-> ToAmount(cart[k].line_total)]]

\* what finish_sale leaves: what it raises or returns, the tables, the cart
\* and the receipts handed to the printer
Out(r, rows, srows, irows, cart, receipts) ==
  [ret |-> r, products |-> rows, sales |-> srows, sale_items |-> irows,
   cart |-> cart, printer |-> receipts]

\* the values add_item hands to its statement, or what its quantize raises
ItemRow(sale_id, it, unit_cost, margin_pct, total, profit) ==
  IF total.exc # "" THEN Raises(total.exc)
  ELSE IF profit.exc # "" THEN Raises(profit.exc)
  ELSE Returns([sale_id |-> sale_id, product_id |-> it.product_id, qty |-> it.qty,
                unit_price |-> Float(it.unit_price), unit_cost |-> Float(unit_cost),
                margin_pct |-> Float(margin_pct),
                line_total |-> Float(total.val), line_profit |-> Float(profit.val)])

\* the database refuses the statement numbered n of the loop; the
\* statements that were committed before stay
FAILED == "mysql.connector.Error"

\* lines 851-852: add_item with the cost and margin just read
Itemised(db, row) ==
  IF row.exc # "" THEN [db EXCEPT !.exc = row.exc]
  ELSE [db EXCEPT !.sale_items = InsertItem(@, row.val)]

\* line 853 taking one unit from the stock whatever the quantity
AdjustedByOne(db, it, k, fail) ==
  IF db.exc # "" THEN db
  ELSE IF fail = 3 * k THEN [db EXCEPT !.exc = FAILED]
  ELSE [db EXCEPT !.products =
          [i \in 1..Len(@) |-> IF i = it.product_id
                                THEN [@[i] EXCEPT !.stock_qty = @ - 1] ELSE @[i]]]

\* line 853: adjust_stock(product_id, -qty)
Adjusted(db, it, k, fail) ==
  IF db.exc # "" THEN db
  ELSE IF fail = 3 * k THEN [db EXCEPT !.exc = FAILED]
  ELSE [db EXCEPT !.products =
          [i \in 1..Len(@) |-> IF i = it.product_id
                                THEN [@[i] EXCEPT !.stock_qty = @ - it.qty] ELSE @[i]]]

\* lines 849-853 for the item k of the cart: the SELECT of cost_price and
\* margin_pct, add_item, adjust_stock, each committed by itself
Line(db, it, k, sale_id, fail) ==
  IF fail = 3 * k - 2 THEN [db EXCEPT !.exc = FAILED]
  ELSE IF it.product_id \notin 1..Len(db.products) THEN [db EXCEPT !.exc = "TypeError"]
  ELSE IF fail = 3 * k - 1 THEN [db EXCEPT !.exc = FAILED]
  ELSE Adjusted(
         Itemised(db,
           ItemRow(sale_id, it,
                   to_decimal(db.products[it.product_id].cost_price).val,
                   to_decimal(db.products[it.product_id].margin_pct).val,
                   line_total(it.unit_price, it.qty),
                   line_profit(it.unit_price,
                               to_decimal(db.products[it.product_id].cost_price).val,
                               it.qty))),
         it, k, fail)

\* lines 848-853: the loop over the items, up to the first that raises
RECURSIVE Lines(_, _, _, _, _)
Lines(db, items, k, sale_id, fail) ==
  IF k > Len(items) \/ db.exc # "" THEN db
  ELSE Lines(Line(db, items[k], k, sale_id, fail), items, k + 1, sale_id, fail)

\* lines 861-865: the payload of a PIX sale, "" for the other methods
PixPayload(st, payment, total, sale_id) ==
  IF payment # PIX THEN Returns(<<>>)
  ELSE build_pix_payload(OrElse(st.pix_key, <<>>),
                         UpperCase(OrElse(st.store_name, DEFAULT_SETTINGS.store_name.s)),
                         Replace(UpperCase(OrElse(st.pix_merchant_city,
                                                  DEFAULT_SETTINGS.pix_merchant_city.s)),
                                 32, <<>>),
                         total, <<86, 69, 78, 68, 65>> \o DecDigits(sale_id))

\* line 867: the texts of the message box
Shown_(payment, total, change) ==
  IF money(total).exc # "" \/ payment # DINHEIRO THEN money(total) ELSE money(change)

\* lines 861-868: the receipt is handed to the printer, the message shown
\* and the cart cleared
Receipt(db, srows, cart, receipts, sale_id, payload, shown) ==
  IF db.exc # "" THEN Out(Raises(db.exc), db.products, srows, db.sale_items, cart, receipts)
  ELSE IF payload.exc # ""
  THEN Out(Raises(payload.exc), db.products, srows, db.sale_items, cart, receipts)
  ELSE IF shown.exc # ""
  THEN Out(Raises(shown.exc), db.products, srows, db.sale_items, cart,
           Append(receipts, [sale_id |-> sale_id, pix_payload |-> payload.val]))
  ELSE Out(Returns(None), db.products, srows, db.sale_items, clear_cart(cart),
           Append(receipts, [sale_id |-> sale_id, pix_payload |-> payload.val]))

\* lines 846-868: create_sale, committed by itself, then the loop and the
\* receipt; the repositories are looked up on the parent of the page
Sale(page, rows, srows, irows, receipts, st, payment, subtotal, total, received, change, fail) ==
  IF page.master # "AdegaApp"
  THEN Out(Raises("AttributeError"), rows, srows, irows, page.cart, receipts)
  ELSE Receipt(Lines([exc |-> "", products |-> rows, sale_items |-> irows],
                     Items(page.cart), 1, Len(srows) + 1, fail),
               Append(srows, SaleRow(1, payment, subtotal, Dec(0, <<0>>, 0), total,
                                     received, change)),
               page.cart, receipts, Len(srows) + 1,
               PixPayload(st, payment, total, Len(srows) + 1),
               Shown_(payment, total, change))

\* finish_sale without the cash check of lines 844-845
TotalsUnchecked(page, rows, srows, irows, receipts, st, payment, subtotal, total, received, fail) ==
  Sale(page, rows, srows, irows, receipts, st, payment, subtotal, total, received,
       IF payment = DINHEIRO THEN DecSub(received, total) ELSE Dec(0, <<0>>, 0), fail)

\* lines 841-845: total, change, and the sale refused when the cash
\* received is less than the total
Totals(page, rows, srows, irows, receipts, st, payment, subtotal, total, received, fail) ==
  IF payment = DINHEIRO /\ Less(received, total)
  THEN Out(Returns(None), rows, srows, irows, page.cart, receipts)
  ELSE Sale(page, rows, srows, irows, receipts, st, payment, subtotal, total, received,
            IF payment = DINHEIRO THEN DecSub(received, total) ELSE Dec(0, <<0>>, 0), fail)

\* lines 841-843 once the received field is read
Paid(page, rows, srows, irows, receipts, st, payment, subtotal, received, fail) ==
  IF received.exc # ""
  THEN Out(Raises(received.exc), rows, srows, irows, page.cart, receipts)
  ELSE Totals(page, rows, srows, irows, receipts, st, payment, subtotal,
              DecSub(subtotal, Dec(0, <<0>>, 0)), received.val, fail)

\* finish_sale reading the received field whatever the payment method
finish_saleAnyReceived(page, rows, srows, irows, receipts, st, payment, received, fail) ==
  IF page.cart = <<>> THEN Out(Returns(None), rows, srows, irows, page.cart, receipts)
  ELSE Paid(page, rows, srows, irows, receipts, st, payment, _recalc(page.cart),
            to_decimal(PyStr(received)), fail)

\* PosPage.finish_sale with the payment method chosen and the text of the
\* received field; fail is the statement of the loop the database refuses
\* (0: none)
finish_sale(page, rows, srows, irows, receipts, st, payment, received, fail) ==
  IF page.cart = <<>> THEN Out(Returns(None), rows, srows, irows, page.cart, receipts)
  ELSE Paid(page, rows, srows, irows, receipts, st, payment, _recalc(page.cart),
            IF payment = DINHEIRO THEN to_decimal(PyStr(received))
            ELSE Returns(Dec(0, <<0>>, 0)),
            fail)

\* ProductRepo.upsert of the data of a row with another cost and margin
Repriced(rows, i, cost, margin, price) ==
  IF price.exc # "" THEN rows
  ELSE [rows EXCEPT ![i] = [@ EXCEPT !.cost_price = cost, !.margin_pct = margin,
                                     !.sale_price = price.val]]

\* a row of products with its barcode and name
Stocked(sku, barcode, name, cost_price, margin_pct, sale_price, stock_qty) ==
  [sku |-> sku, barcode |-> barcode, name |-> name, cost_price |-> cost_price,
   margin_pct |-> margin_pct, sale_price |-> sale_price, stock_qty |-> stock_qty]

\* product 1: barcode 7, cost 1.00 at 50%, 1.50, one in stock;
\* product 2: barcode 8, cost 1.00 at 100%, 2.00, none in stock
Shelf ==
  <<Stocked(SkuA, <<55>>, <<86>>, Dec(0, <<1, 0, 0>>, -2), Dec(0, <<5, 0>>, 0),
            Dec(0, <<1, 5, 0>>, -2), 1),
    Stocked(SkuB, <<56>>, <<87>>, Dec(0, <<1, 0, 0>>, -2), Dec(0, <<1, 0, 0>>, 0),
            Dec(0, <<2, 0, 0>>, -2), 0)>>

\* what is typed into the barcode field: " 7", "8", "9" (unknown), ""
Barcodes == {<<32, 55>>, <<56>>, <<57>>, <<>>}

\* what is typed into the received field: "3", "x"
ReceivedTexts == {<<51>>, <<120>>}

\* cost and margin product 1 is saved with: 1.00 at 50%, 1.20 at 50%
Repricings == {<<Dec(0, <<1, 0, 0>>, -2), Dec(0, <<5, 0>>, 0)>>,
               <<Dec(0, <<1, 2, 0>>, -2), Dec(0, <<5, 0>>, 0)>>}

\* what the settings page is saved with: a key with the name and city left
\* empty, and a key with a name and a city of blanks
SettingsRows ==
  {[store_name |-> PyStr(<<>>), pix_key |-> PyStr(<<107>>), pix_merchant_city |-> PyStr(<<>>)],
   [store_name |-> PyStr(<<97, 100, 233>>), pix_key |-> PyStr(<<107>>),
    pix_merchant_city |-> PyStr(<<32, 32>>)]}

\* the parent of the PosPage: the container Frame that _build_shell hands
\* to it, or a parent that carries the repositories, the printer and the
\* state finish_sale looks up on it
Masters == {"Frame", "AdegaApp"}

\* price, cost and margin of a row of products
Version(row) ==
  [sale_price |-> row.sale_price, cost_price |-> row.cost_price, margin_pct |-> row.margin_pct]

PosInit ==
  /\ pc = "pos" /\ op = "" /\ args = <<>> /\ ret = NoRet
  /\ NoPix
  /\ pos \in {[master |-> m, cart |-> <<>>] : m \in Masters}
  /\ settings = DEFAULT_SETTINGS
  /\ printer = <<>>
  /\ products = Shelf /\ sales = <<>> /\ sale_items = <<>>
  /\ history = [versions |-> [i \in 1..Len(Shelf) |-> {Version(Shelf[i])}],
                confirmed |-> FALSE]

\* the cart after a handler of the page that touches nothing else; the
\* handlers are followed up to the first sale recorded, and op, args and ret
\* show a call of finish_sale until the next handler runs
Carted(cart) ==
  /\ sales = <<>>
  /\ op' = "" /\ args' = <<>> /\ ret' = NoRet
  /\ pos' = [pos EXCEPT !.cart = cart]
  /\ UNCHANGED <<products, sales, sale_items, settings, printer>>
  /\ UNCHANGED <<pc, key, merchant_name, merchant_city, amount, txid, _id, value, data>>

\* Adicionar, or Return in the barcode field
Do_add_by_barcode ==
  \E code \in Barcodes, confirm \in BOOLEAN :
    /\ \A i \in get_by_barcode(products, Strip(code)) :
         \A k \in InCart(pos.cart, i) : ToNumber(pos.cart[k].qty) < MaxQty
    /\ Carted(add_by_barcode(pos.cart, products, code, confirm))
    /\ history' = [history EXCEPT !.confirmed =
                      @ \/ (confirm /\ Strip(code) # <<>>
                               /\ Prompted(products, get_by_barcode(products, Strip(code))))]

\* Remover item
Do_remove_selected ==
  \E selection \in SUBSET (1..Len(pos.cart)) :
    /\ Carted(remove_selected(pos.cart, selection))
    /\ UNCHANGED history

\* Limpar carrinho
Do_clear_cart ==
  /\ Carted(clear_cart(pos.cart))
  /\ UNCHANGED history

\* what finish_sale leaves
Finished(payment, received, fail, out) ==
  /\ op' = "finish_sale"
  /\ args' = [payment |-> payment, received |-> received]
  /\ ret' = out.ret
  /\ products' = out.products /\ sales' = out.sales /\ sale_items' = out.sale_items
  /\ pos' = [pos EXCEPT !.cart = out.cart]
  /\ printer' = out.printer
  /\ UNCHANGED <<settings, history>>
  /\ UNCHANGED <<pc, key, merchant_name, merchant_city, amount, txid, _id, value, data>>

\* Finalizar Venda, or F2
Do_finish_sale ==
  /\ sales = <<>>
  /\ \E payment \in {DINHEIRO, CREDITO, PIX}, received \in ReceivedTexts,
        fail \in 0..(3 * Len(pos.cart)) :
       Finished(payment, received, fail,
                finish_sale(pos, products, sales, sale_items, printer, settings,
                            payment, received, fail))

\* what saving product 1 leaves
Resaved_(rows) ==
  /\ sales = <<>>
  /\ op' = "" /\ args' = <<>> /\ ret' = NoRet
  /\ products' = rows
  /\ history' = [history EXCEPT !.versions[1] = @ \cup {Version(rows[1])}]
  /\ UNCHANGED <<pos, sales, sale_items, settings, printer>>
  /\ UNCHANGED <<pc, key, merchant_name, merchant_city, amount, txid, _id, value, data>>

\* product 1 is saved on the products page with another cost or margin
Do_upsert ==
  \E pr \in Repricings :
    Resaved_(Repriced(products, 1, pr[1], pr[2], upsert_sale_price(pr[1], pr[2])))

\* SettingsPage.save
Do_settings_save ==
  \E typed \in SettingsRows :
    /\ sales = <<>>
    /\ op' = "" /\ args' = <<>> /\ ret' = NoRet
    /\ settings' = typed
    /\ UNCHANGED <<pos, products, sales, sale_items, printer, history>>
    /\ UNCHANGED <<pc, key, merchant_name, merchant_city, amount, txid, _id, value, data>>

PosNext ==
  \/ Do_add_by_barcode \/ Do_remove_selected \/ Do_clear_cart
  \/ Do_finish_sale \/ Do_upsert \/ Do_settings_save

PosSpec == PosInit /\ [][PosNext]_vars

----------------------------------------------------------------------------
(* Reading a payload back *)

Built == pc = "done" /\ op = "build_pix_payload"
\* the call returned a payload
Payload == Built /\ ret.exc = "" /\ ret.val # <<>>
HasPayee == key # <<>> /\ merchant_name # <<>> /\ merchant_city # <<>>

IsUpperHex(c) == IsDigit(c) \/ (c >= 65 /\ c <= 70)
HexVal(c) == IF IsDigit(c) THEN c - 48 ELSE c - 55

\* the number written by the w digits of s that follow its 2-character id
LenAt(s, w) == IF w = 2 THEN 10 * (s[3] - 48) + (s[4] - 48)
               ELSE 100 * (s[3] - 48) + 10 * (s[4] - 48) + (s[5] - 48)

\* The ways to read s as a sequence of fields [id, val], each written as the
\* 2-character id, the length of val in decimal and val; W holds the numbers
\* of digits a length may have: {2} for a well-formed payload, {2, 3} to
\* follow a length of 100 or more as it is written (without leading zero).
RECURSIVE Parses(_, _)
Parses(s, W) ==
  IF s = <<>> THEN {<<>>}
  ELSE UNION {
    IF Len(s) < 2 + w \/ (\E i \in 3..(2 + w) : ~IsDigit(s[i])) THEN {}
    ELSE IF (w = 3 /\ s[3] = 48) \/ Len(s) < 2 + w + LenAt(s, w) THEN {}
    ELSE {<<[id |-> SubSeq(s, 1, 2), val |-> SubSeq(s, 3 + w, 2 + w + LenAt(s, w))]>> \o rest :
            rest \in Parses(SubSeq(s, 3 + w + LenAt(s, w), Len(s)), W)}
    : w \in W}

\* the top-level fields of the payload returned, lengths followed as written
Fields == Parses(ret.val, {2, 3})

Ids(fs) == [i \in 1..Len(fs) |-> fs[i].id]
HasId(fs, id) == \E i \in 1..Len(fs) : fs[i].id = id
\* the values of the fields of fs with the given id
ValuesOf(fs, id) == {fs[i].val : i \in {j \in 1..Len(fs) : fs[j].id = id}}

\* the first n characters of s
FirstN(s, n) == [i \in 1..(IF Len(s) < n THEN Len(s) ELSE n) |-> s[i]]

\* amount is supplied and strictly greater than zero
AmountIsPositive ==
  \/ amount.kind = "F" /\ amount.sign = 0 /\ amount.int # <<0>>
  \/ amount.kind = "Inf" /\ amount.sign = 0

----------------------------------------------------------------------------
(* C1: whenever build_pix_payload is called with non-empty key,            *)
(* merchant_name and merchant_city and returns, the last 4 characters of   *)
(* the result are 4 uppercase hexadecimal digits whose value is            *)
(* _crc16_ccitt of the UTF-8 bytes of all preceding characters, and the    *)
(* preceding characters end with "6304".                                   *)
C1_ChecksumSealsPayload ==
  (Built /\ HasPayee /\ ret.exc = "") =>
    LET n    == Len(ret.val)
        body == SubSeq(ret.val, 1, n - 4)
        tail == SubSeq(ret.val, n - 3, n)
    IN  /\ n >= 8
        /\ \A i \in 1..4 : IsUpperHex(tail[i])
        /\ 4096 * HexVal(tail[1]) + 256 * HexVal(tail[2]) + 16 * HexVal(tail[3]) + HexVal(tail[4])
             = _crc16_ccitt(Utf8Bytes(body))
        /\ SubSeq(body, Len(body) - 3, Len(body)) = <<54, 51, 48, 52>>

\* a payload whose characters are not all one byte long was sealed
C1_Witness ==
  /\ Payload
  /\ \E i \in 1..Len(ret.val) : ret.val[i] > 127
  /\ Len(Utf8Bytes(ret.val)) > Len(ret.val)

----------------------------------------------------------------------------
(* C2 (as amended): in every payload returned the top-level fields appear  *)
(* in one fixed order: the field with ID 00 first, then merchant account   *)
(* (26), merchant category (52), currency (53), amount (54, exactly when   *)
(* the amount is positive), country (58), merchant name (59), merchant     *)
(* city (60), additional data (62) and last the checksum field (63).       *)
TailIds == <<Id(5, 8), Id(5, 9), Id(6, 0), Id(6, 2), Id(6, 3)>>
AmountIds == IF AmountIsPositive THEN <<Id(5, 4)>> ELSE <<>>

C2_FieldOrder ==
  Payload =>
    \E fs \in Fields :
      Ids(fs) = <<Id(0, 0), Id(2, 6), Id(5, 2), Id(5, 3)>> \o AmountIds \o TailIds

\* C2 as claimed: the merchant-account field (26) comes first and the field
\* with ID 00 follows it.
C2_AccountFirst ==
  Payload =>
    \E fs \in Fields :
      Ids(fs) = <<Id(2, 6), Id(0, 0), Id(5, 2), Id(5, 3)>> \o AmountIds \o TailIds

\* a payload with all ten fields was returned
C2_Witness ==
  /\ Payload
  /\ AmountIsPositive
  /\ \E fs \in Fields : Len(fs) = 10 /\ fs[1].id = Id(0, 0) /\ fs[2].id = Id(2, 6)

----------------------------------------------------------------------------
(* C3: every payload returned is well-formed TLV at every nesting level:   *)
(* it reads completely as a sequence of fields with 2-digit lengths, and   *)
(* the values of the fields 26 and 62 read the same way into the           *)
(* sub-fields 00 and 01, respectively 05.                                  *)
C3_WellFormedTLV ==
  Payload =>
    \E fs \in Parses(ret.val, {2}) :
      /\ HasId(fs, Id(2, 6)) /\ HasId(fs, Id(6, 2))
      /\ \A v \in ValuesOf(fs, Id(2, 6)) :
           \E sub \in Parses(v, {2}) : Ids(sub) = <<Id(0, 0), Id(0, 1)>>
      /\ \A v \in ValuesOf(fs, Id(6, 2)) :
           \E sub \in Parses(v, {2}) : Ids(sub) = <<Id(0, 5)>>

----------------------------------------------------------------------------
(* C4: build_pix_payload returns the empty string whenever key,            *)
(* merchant_name or merchant_city is empty, and returns a non-empty string *)
(* whenever all three are non-empty.                                       *)
C4_EmptyIffNoPayee ==
  Built =>
    /\ ret.exc = ""
    /\ (ret.val = <<>>) <=> ~HasPayee

----------------------------------------------------------------------------
(* C5: in a payload returned the amount field (54) is present exactly when *)
(* amount is supplied and strictly greater than zero; otherwise there is   *)
(* no field 54 at all and the currency field 53 is followed directly by    *)
(* the country field 58.                                                   *)
C5_AmountFieldIffPositive ==
  Payload =>
    \E fs \in Fields :
      /\ HasId(fs, Id(5, 4)) <=> AmountIsPositive
      /\ \E i \in 1..(Len(fs) - 1) :
           /\ fs[i].id = Id(5, 3)
           /\ IF AmountIsPositive
              THEN fs[i + 1].id = Id(5, 4) /\ fs[i + 1].val # <<>>
              ELSE fs[i + 1].id = Id(5, 8)

\* a payload was returned for a negative amount, and it has no field 54
C5_Witness ==
  /\ Payload
  /\ amount.kind = "F" /\ amount.sign = 1 /\ amount.int # <<0>>
  /\ \E fs \in Fields : ~HasId(fs, Id(5, 4))

----------------------------------------------------------------------------
(* C6: when the amount field (54) is emitted its value is the amount       *)
(* rounded half-up to 2 fractional digits, written as a plain decimal      *)
(* string.                                                                 *)
HalfUpPlain(a) == DecStr(Rescale(a, -2, "ROUND_HALF_UP"))

C6_AmountRoundedHalfUp ==
  (Payload /\ AmountIsPositive) =>
    \E fs \in Fields : ValuesOf(fs, Id(5, 4)) = {HalfUpPlain(amount)}

----------------------------------------------------------------------------
(* C7: in a payload returned the value of field 59 is the first 25         *)
(* characters of merchant_name ("LOJA" only if that prefix is empty), the  *)
(* value of field 60 the first 15 characters of merchant_city ("CIDADE"    *)
(* only if that prefix is empty), and the value of sub-field 05 in field   *)
(* 62 the first 25 characters of txid.                                     *)
OrPlaceholder(v, placeholder) == IF v = <<>> THEN placeholder ELSE v

C7_Truncation ==
  Payload =>
    \E fs \in Fields :
      /\ ValuesOf(fs, Id(5, 9)) = {OrPlaceholder(FirstN(merchant_name, 25), <<76, 79, 74, 65>>)}
      /\ ValuesOf(fs, Id(6, 0)) = {OrPlaceholder(FirstN(merchant_city, 15), <<67, 73, 68, 65, 68, 69>>)}
      /\ \E v \in ValuesOf(fs, Id(6, 2)) :
           /\ ValuesOf(fs, Id(6, 2)) = {v}
           /\ \E sub \in Parses(v, {2, 3}) :
                Len(sub) = 1 /\ sub[1].id = Id(0, 5) /\ sub[1].val = FirstN(txid, 25)

\* a payload was returned for a name, a city and a txid that are all too long
C7_Witness ==
  /\ Payload
  /\ Len(merchant_name) > 25 /\ Len(merchant_city) > 15 /\ Len(txid) > 25

----------------------------------------------------------------------------
(* C8: _emv_kv fails with FieldTooLong whenever the value has more than 99 *)
(* characters, so build_pix_payload returns no payload when the            *)
(* merchant-account group is longer than 99 characters.                    *)
C8_FieldTooLong ==
  /\ (pc = "done" /\ op = "_emv_kv" /\ Len(value) > 99) => ret.exc = "FieldTooLong"
  /\ (Built /\ HasPayee /\ 22 + Len(key) > 99) => ret.exc # ""

----------------------------------------------------------------------------
(* C9: build_pix_payload never fails: every call returns a string.         *)
C9_NeverRaises == Built => ret.exc = ""

----------------------------------------------------------------------------
(* C10: _crc16_ccitt computes CRC-16/CCITT-FALSE.  The reference is the    *)
(* definition of that checksum as a remainder: the message bits (most      *)
(* significant bit of each byte first) followed by 16 zero bits, the first *)
(* 16 bits inverted (the initial register 0xFFFF), divided over GF(2) by   *)
(* x^16 + x^12 + x^5 + 1; the 16 bits left are the checksum.               *)
Generator == <<1, 0, 0, 0, 1, 0, 0, 0, 0, 0, 0, 1, 0, 0, 0, 0, 1>>

Pow2(n) == IF n = 0 THEN 1 ELSE IF n = 1 THEN 2 ELSE IF n = 2 THEN 4 ELSE IF n = 3 THEN 8
           ELSE IF n = 4 THEN 16 ELSE IF n = 5 THEN 32 ELSE IF n = 6 THEN 64 ELSE 128

\* bit k (1 = first) of the message followed by 16 zero bits
MessageBit(bytes, k) ==
  IF k > 8 * Len(bytes) THEN 0
  ELSE (bytes[((k - 1) \div 8) + 1] \div Pow2(7 - ((k - 1) % 8))) % 2

Dividend(bytes) ==
  [k \in 1..(8 * Len(bytes) + 16) |->
     IF k <= 16 THEN 1 - MessageBit(bytes, k) ELSE MessageBit(bytes, k)]

\* one step of the long division: cancel bit i with the generator
Cancel(b, i) ==
  IF b[i] = 0 THEN b
  ELSE [j \in 1..Len(b) |->
          IF j >= i /\ j <= i + 16 THEN (b[j] + Generator[j - i + 1]) % 2 ELSE b[j]]

\* the steps lo..hi of the long division, in order
RECURSIVE Divide(_, _, _)
Divide(b, lo, hi) ==
  IF lo > hi THEN b
  ELSE IF lo = hi THEN Cancel(b, lo)
  ELSE LET mid == (lo + hi) \div 2
       IN  CHOOSE r \in {Divide(half, mid + 1, hi) : half \in {Divide(b, lo, mid)}} : TRUE

RECURSIVE BitsValue(_, _, _)
BitsValue(b, lo, hi) == IF lo > hi THEN 0 ELSE 2 * BitsValue(b, lo, hi - 1) + b[hi]

RefCrc(bytes) ==
  LET n == 8 * Len(bytes)
      r == Divide(Dividend(bytes), 1, n)
  IN  BitsValue(r, n + 1, n + 16)

C10_CrcIsCcittFalse ==
  (pc = "done" /\ op = "_crc16_ccitt") =>
    /\ ret.exc = ""
    /\ ret.val \in 0..65535
    /\ ret.val = RefCrc(data)
    /\ data = <<49, 50, 51, 52, 53, 54, 55, 56, 57>> => ret.val = 10673   \* 0x29B1

\* the checksum of the test vector "123456789" was computed
C10_Witness ==
  /\ pc = "done" /\ op = "_crc16_ccitt"
  /\ data = <<49, 50, 51, 52, 53, 54, 55, 56, 57>>
  /\ ret.val = 10673

----------------------------------------------------------------------------
(* Claims about prices and sale lines *)

Saves == pc = "done" /\ op = "upsert" /\ ret.exc = ""
Resaved == pc = "again" /\ op = "upsert"

NonNegative(d) == d.kind = "F" /\ (d.sign = 0 \/ d.int = <<0>>)

\* c * (1 + m / 100) = c.int * (100 + m) * 10^(c.exp - 2), written out for
\* non-negative c and m
ExactPrice(c, m) ==
  LET e == Min(m.exp, 0)
  IN  Dec(0, DigitsOf(IntOf(c.int) * (100 * Pow10(-e) + IntOf(m.int) * Pow10(m.exp - e))),
          c.exp + e - 2)

HalfUp(d) == Rescale(d, -2, "ROUND_HALF_UP")

\* C11: for non-negative cost C and margin M, the sale price upsert stores
\* is C * (1 + M / 100) rounded half-up to 2 fractional digits (cost 0.50
\* with margin 1 gives 0.51).
C11_SalePriceHalfUp ==
  (Saves /\ NonNegative(args.data.cost_price) /\ NonNegative(args.data.margin_pct))
    => RowOf(products, args.data.sku).sale_price
         = HalfUp(ExactPrice(args.data.cost_price, args.data.margin_pct))

----------------------------------------------------------------------------
\* C12: saving a product again with its sale price as the cost and margin 0
\* stores the same sale price once more.
C12_Idempotent ==
  Resaved => /\ ret.exc = ""
             /\ RowOf(products, args.data.sku).sale_price = args.before

\* 0.50 at 3% was rounded to 0.52, and saved again at no margin is 0.52
C12_Witness ==
  /\ Resaved
  /\ args.data.cost_price = Dec(0, <<5, 0>>, -2)
  /\ args.data.margin_pct = Dec(0, <<3>>, 0)
  /\ args.before = Dec(0, <<5, 2>>, -2)
  /\ RowOf(products, args.data.sku).sale_price = Dec(0, <<5, 2>>, -2)

----------------------------------------------------------------------------
AddsItem == pc = "done" /\ op = "add_item"

\* C13: for a positive quantity Q and amounts P and U, add_item returns
\* line_total = P * Q and line_profit = (P - U) * Q, each rounded half-up to
\* 2 fractional digits, once, after the multiplication.
C13_LineTotalsHalfUp ==
  (AddsItem /\ args.qty > 0 /\ ret.exc = "")
    => /\ ret.val.line_total = HalfUp(DecMul(args.unit_price, DecInt(args.qty)))
       /\ ret.val.line_profit
            = HalfUp(DecMul(DecSub(args.unit_price, args.unit_cost), DecInt(args.qty)))

----------------------------------------------------------------------------
\* C14: add_item called for an existing sale and product with a quantity of
\* 0 or less fails with InvalidQuantity and inserts no sale_items row.
C14_InvalidQuantity ==
  (AddsItem /\ args.qty <= 0
            /\ args.sale_id \in 1..Len(sales) /\ args.product_id \in 1..Len(products))
    => (ret.exc = "InvalidQuantity" /\ sale_items = <<>>)

----------------------------------------------------------------------------
(* Claims about the tables *)

\* the price upsert computes of a non-negative cost and margin, written out
PriceOf(c, m) == Rescale(ExactPrice(c, m), -2, "ROUND_HALF_EVEN")

\* C15: after any sequence of form saves and CSV imports every row of
\* products holds the sale price computed from its own cost_price and
\* margin_pct; a sale_price the caller supplied is never what is stored.
C15_SalePriceDerived ==
  pc = "repo" =>
    \A i \in 1..Len(products) :
      products[i].sale_price = PriceOf(products[i].cost_price, products[i].margin_pct)

\* a form saved with 0,50 at 1% and a sale price of 9,99 typed in: the row
\* holds 0.50
C15_Witness ==
  /\ pc = "repo" /\ op = "_save" /\ ret.exc = ""
  /\ args.sale_price = NINE99 /\ args.cost_price = <<48, 44, 53, 48>>
  /\ products # <<>>
  /\ products[1].sale_price = Dec(0, <<5, 0>>, -2)

----------------------------------------------------------------------------
\* C16: a row of sale_items is a snapshot: no step (a form save, a CSV
\* import, adjust_stock, create_sale, a further add_item) removes a row or
\* changes any column of a row already recorded.
C16_ItemsAreSnapshots ==
  [][\A i \in 1..Len(sale_items) :
       i <= Len(sale_items') /\ sale_items'[i] = sale_items[i]]_vars

\* a line was recorded and the product was saved at another price since
C16_Witness ==
  /\ pc = "repo" /\ op \in {"_save", "import_csv"}
  /\ sale_items # <<>>
  /\ Float(products[sale_items[1].product_id].sale_price) # sale_items[1].unit_price

----------------------------------------------------------------------------
(* Claims about money and to_decimal *)

\* digits with a '.' before every group of three, counted from the right
RECURSIVE Dotted(_)
Dotted(digits) ==
  IF Len(digits) <= 3 THEN DigitChars(digits)
  ELSE Dotted(SubSeq(digits, 1, Len(digits) - 3)) \o <<46>>
       \o DigitChars(SubSeq(digits, Len(digits) - 2, Len(digits)))

\* at least three digits: one before the decimal comma
Padded(int) == IF Len(int) < 3 THEN [i \in 1..(3 - Len(int)) |-> 0] \o int ELSE int

\* "R$ ", the sign, the integer digits in groups, ',' and 2 fractional digits
Currency(sign, digits) ==
  <<82, 36, 32>> \o (IF sign = 1 THEN <<45>> ELSE <<>>)
  \o Dotted(SubSeq(digits, 1, Len(digits) - 2))
  \o <<44>> \o DigitChars(SubSeq(digits, Len(digits) - 1, Len(digits)))

Formats == pc = "done" /\ op = "money"

\* C17: money(x) renders every finite amount as "R$ " followed by the value
\* rounded half-up to 2 fractional digits, with '.' between groups of three
\* integer digits and ',' before the 2 fractional digits.
C17_MoneyRendering ==
  (Formats /\ args.x.kind = "F")
    => ret = Returns(Currency(args.x.sign, Padded(HalfUp(args.x).int)))

----------------------------------------------------------------------------
Parsed == pc = "done" /\ op = "to_decimal"

\* the text without the blanks around it
Trimmed == Strip(args.x.s)

\* where the text has a ',' or a '.'
Separators(t) == {k \in 1..Len(t) : t[k] \in {44, 46}}

\* digits, one separator, digits
IsPair(t) ==
  /\ Cardinality(Separators(t)) = 1
  /\ \A k \in 1..Len(t) : t[k] \in 48..57 \/ (k \in Separators(t) /\ 1 < k /\ k < Len(t))

\* the exact value i.f of the pair: the digits of i and f as one number,
\* with as many fractional digits as f has
PairValue(t) ==
  LET k == CHOOSE k \in Separators(t) : TRUE
  IN  Dec(0, DigitsOf(IntOf([j \in 1..(Len(t) - 1) |-> IF j < k THEN t[j] - 48 ELSE t[j + 1] - 48])),
          k - Len(t))

ZERO == Dec(0, <<0>>, 0)

\* C18: to_decimal of digits, ',' or '.', digits, with or without blanks
\* around, is the exact value written, the same for either separator; the
\* empty string, a string of blanks and None give zero.
C18_SeparatorsAndBlanks ==
  Parsed =>
    /\ (args.x.kind = "str" /\ IsPair(Trimmed)) => ret = Returns(PairValue(Trimmed))
    /\ (args.x.kind = "None" \/ (args.x.kind = "str" /\ Trimmed = <<>>)) => ret = Returns(ZERO)

\* " 007,05" between blanks is 7.05
C18_Witness ==
  /\ Parsed
  /\ args.x = PyStr(<<32, 48, 48, 55, 44, 48, 53, 9, 10>>)
  /\ ret = Returns(Dec(0, <<7, 0, 5>>, -2))

----------------------------------------------------------------------------
\* after ',' is written as '.': a character that is no digit, '.' or sign,
\* or more than one '.'
NonNumeric(t) ==
  \/ \E k \in 1..Len(t) : t[k] \notin (48..57) \cup {44, 46, 43, 45}
  \/ Cardinality(Separators(t)) > 1

\* C19: to_decimal fails, and returns no value, for every string that after
\* the separator is normalised and the blanks are trimmed still holds a
\* non-numeric character or a second separator.
C19_ParseError ==
  (Parsed /\ args.x.kind = "str" /\ NonNumeric(Trimmed)) => ret.exc # ""

----------------------------------------------------------------------------
(* Claims about the point of sale.  A step of finish_sale is a step that   *)
(* leaves op = "finish_sale"; the unprimed variables are the state it was  *)
(* called in.                                                              *)

FinishesSale == op' = "finish_sale"

\* the payment is valid for the cart: not cash, or cash with the received
\* text a number not below the sum of the line totals
ValidPayment(cart, payment, received) ==
  \/ payment # DINHEIRO
  \/ /\ to_decimal(PyStr(received)).exc = ""
     /\ ~Less(to_decimal(PyStr(received)).val, _recalc(cart))

\* the call ran to its end: nothing raised, one more sales row, one more
\* sale_items row per cart line, the cart empty
Completes ==
  /\ ret'.exc = ""
  /\ Len(sales') = Len(sales) + 1
  /\ Len(sale_items') = Len(sale_items) + Len(pos.cart)
  /\ pos'.cart = <<>>

\* C22: finish_sale on the PosPage that _build_shell creates (its parent is
\* the container Frame), with a non-empty cart and a valid payment, runs to
\* completion: one sales row, one sale_items row per cart line, the cart
\* left empty.
C22_FinishSaleCompletes ==
  [][(FinishesSale /\ pos.master = "Frame" /\ pos.cart # <<>>
        /\ ValidPayment(pos.cart, args'.payment, args'.received))
       => Completes]_vars

(* Claims about the amounts handed to the statements. *)

\* an exact base-10 value with two fractional digits
IsMoney(v) == v.kind = "F" /\ v.exp = MONEY_Q

\* C21: no amount passes through binary floating point: every amount
\* create_sale and add_item hand to their statements (subtotal, total,
\* received, change, unit price, unit cost, line total, line profit) is an
\* exact base-10 value with two fractional digits.
C21_NoBinaryFloat ==
  /\ \A i \in 1..Len(sales) :
        /\ IsMoney(sales[i].subtotal) /\ IsMoney(sales[i].total)
        /\ IsMoney(sales[i].received) /\ IsMoney(sales[i].change_due)
  /\ \A i \in 1..Len(sale_items) :
        /\ IsMoney(sale_items[i].unit_price) /\ IsMoney(sale_items[i].unit_cost)
        /\ IsMoney(sale_items[i].line_total) /\ IsMoney(sale_items[i].line_profit)

\* the tables are as they were before the call
TablesKept == sales' = sales /\ sale_items' = sale_items /\ products' = products

FromVersion(row, v) ==
  /\ row.unit_price = Float(v.sale_price)
  /\ row.unit_cost = Float(v.cost_price)
  /\ row.margin_pct = Float(v.margin_pct)

Rejected(cart, payment, received) ==
  \/ cart = <<>>
  \/ /\ payment = DINHEIRO
     /\ to_decimal(PyStr(received)).exc = ""
     /\ Less(to_decimal(PyStr(received)).val, _recalc(cart))

\* C26: a rejected finish_sale (empty cart, or cash with less received than
\* the total) inserts no row, changes no stock and leaves the cart as it
\* was.
C26_RejectedChangesNothing ==
  [][(FinishesSale /\ Rejected(pos.cart, args'.payment, args'.received))
       => (TablesKept /\ pos' = pos /\ printer' = printer)]_vars

\* a call paid in cash with less than the total of a cart of two products
\* was rejected on a page that could have recorded the sale
C26_Witness ==
  /\ pc = "pos" /\ op = "finish_sale" /\ pos.master = "AdegaApp"
  /\ Len(pos.cart) = 2
  /\ args.payment = DINHEIRO
  /\ Rejected(pos.cart, args.payment, args.received)
  /\ ret = Returns(None) /\ sales = <<>>

\* the base-10 value a column holds for the double handed to the statement
AsDec(f) == Dec(f.sign, f.int, f.exp)

\* a = b of finite a and b
Equal(a, b) == ~Less(a, b) /\ ~Less(b, a)

\* the sum of line_total over the sale_items rows of a sale
RECURSIVE LineTotals(_, _)
LineTotals(irows, sale_id) ==
  IF irows = <<>> THEN Dec(0, <<0>>, 0)
  ELSE DecAdd(LineTotals(SubSeq(irows, 1, Len(irows) - 1), sale_id),
              IF irows[Len(irows)].sale_id = sale_id
              THEN AsDec(irows[Len(irows)].line_total) ELSE Dec(0, <<0>>, 0))

\* finish_sale has just recorded a sale and returned
Completed == pc = "pos" /\ op = "finish_sale" /\ ret.exc = "" /\ sales # <<>>

\* C27: for every completed sale, total equals subtotal (the discount is 0)
\* and equals the sum of line_total over the sale_items rows of the sale.
C27_TotalIsSumOfLines ==
  Completed =>
    /\ Equal(AsDec(sales[Len(sales)].total), AsDec(sales[Len(sales)].subtotal))
    /\ Equal(AsDec(sales[Len(sales)].discount), Dec(0, <<0>>, 0))
    /\ Equal(AsDec(sales[Len(sales)].total), LineTotals(sale_items, Len(sales)))

\* a completed sale of two lines, one of them of two units
C27_Witness ==
  /\ Completed
  /\ Len(sale_items) = 2
  /\ \E i \in 1..Len(sale_items) : sale_items[i].qty = 2
  /\ Equal(AsDec(sales[Len(sales)].total), Dec(0, <<5, 0, 0>>, -2))

\* received and change of a sales row paid in cash
CashRow(row) ==
  /\ ~Less(AsDec(row.received), AsDec(row.total))
  /\ Equal(AsDec(row.change_due), DecSub(AsDec(row.received), AsDec(row.total)))
  /\ ~Less(AsDec(row.change_due), Dec(0, <<0>>, 0))

\* received and change of a sales row paid otherwise
OtherRow(row) ==
  /\ Equal(AsDec(row.received), Dec(0, <<0>>, 0))
  /\ Equal(AsDec(row.change_due), Dec(0, <<0>>, 0))

\* C28: every sales row finish_sale records: paid in cash, received is at
\* least total and change_due = received - total, not below 0; paid
\* otherwise, received and change_due are 0 whatever was typed into the
\* received field.
C28_ReceivedAndChange ==
  pc = "pos" =>
    \A i \in 1..Len(sales) :
      IF sales[i].payment_method = DINHEIRO THEN CashRow(sales[i]) ELSE OtherRow(sales[i])

\* a sale of 1.50 paid in cash with 3 received: change 1.50
C28_Witness ==
  /\ Completed
  /\ sales[1].payment_method = DINHEIRO
  /\ sales[1].received = Float(Dec(0, <<3>>, 0))
  /\ sales[1].change_due = Float(Dec(0, <<1, 5, 0>>, -2))

\* the units of a product in the cart
RECURSIVE QtyInCart(_, _)
QtyInCart(cart, pid) ==
  IF cart = <<>> THEN 0
  ELSE QtyInCart(SubSeq(cart, 1, Len(cart) - 1), pid)
       + (IF ToNumber(cart[Len(cart)].product_id) = pid
          THEN ToNumber(cart[Len(cart)].qty) ELSE 0)

\* no product has two lines in the cart
OneLineEach(cart) == \A i \in 1..Len(products) : Cardinality(InCart(cart, i)) <= 1

\* C29: a completed finish_sale lowers the stock_qty of each product in the
\* cart by exactly that product's cart quantity, once, and leaves every
\* other product, and every other column, as it was; no product ever has
\* more than one cart line.
C29_StockLoweredOnce ==
  [][/\ OneLineEach(pos'.cart)
     /\ (FinishesSale /\ ret'.exc = "" /\ sales' # sales) =>
          \A i \in 1..Len(products) :
            products'[i] = [products[i] EXCEPT !.stock_qty = @ - QtyInCart(pos.cart, i)]]_vars

\* a completed sale of two units of product 1, which had one in stock;
\* product 2, not in the cart, keeps its stock of 0
C29_Witness ==
  /\ Completed
  /\ Len(sale_items) = 1 /\ sale_items[1].product_id = 1 /\ sale_items[1].qty = 2
  /\ products[1].stock_qty = Shelf[1].stock_qty - 2
  /\ products[2].stock_qty = Shelf[2].stock_qty

\* the settings row holds a pix_key
HasPixKey == settings.pix_key.kind = "str" /\ settings.pix_key.s # <<>>

====
